---- MODULE Spec2Model ----
(***************************************************************************)
(* Byte-level model of the go-shp shapefile Writer (src/writer.go) and of  *)
(* the Reader with the ReaderConfig (src/unnamed/part_005).  The three     *)
(* files of a shapefile (.shp, .shx, .dbf) are sequences of bytes; file    *)
(* offsets are 0-based as in the code, sequence indices are 1-based.       *)
(***************************************************************************)
EXTENDS Integers, Sequences, FiniteSets, TLC

\* ------------------------------------------------------------ bounds
\* Most records a .shp file holds (Write is disabled beyond it).
MaxRecords == 2
\* Most WriteAttribute calls that return nil in one behaviour of Spec, and
\* in one behaviour of SpecDbf.
MaxAttrWrites == 1
MaxDbfAttrWrites == 2
\* Most Append calls in one behaviour.
MaxAppends == 1
\* Most fields of a schema given to SetFields.
MaxFields == 129

\* ------------------------------------------------- program constants
shpHeaderLen == 100
shpOffsetToGeomType == 32
shpOffsetToFileLength == 24
shpOffsetToVersion == 28
dbfOffsetNumRecords == 4
dbfOffsetHeaderLen == 8
dbfHeaderPaddingLen == 20
dbfFieldDescriptorLen == 32
dbfHeaderFieldsBase == 33
dbfRowDeletionFlagSz == 1
shpFileCode == 9994
shpVersion == 1000
NULL == 0
POINT == 1

\* The byte ' ' of an empty row and the byte "\r" that ends the DBF header.
SP == 32
CR == 13

\* ASCII codes of the other characters the model uses.
Ch == [minus |-> 45, dot |-> 46, zero |-> 48, a |-> 97, b |-> 98,
       C |-> 67, N |-> 78, F |-> 70]

\* ---------------------------------------------------- primitive codec
Zeros(n) == [i \in 1..n |-> 0]

\* The k-th least significant byte of the two's complement form of v.
ByteOf(v, k) == (v \div (256 ^ k)) % 256

\* binary.Write(ew, binary.BigEndian, int32)
BE32(v) == <<ByteOf(v, 3), ByteOf(v, 2), ByteOf(v, 1), ByteOf(v, 0)>>

\* binary.Write(ew, binary.LittleEndian, int32)
LE32(v) == <<ByteOf(v, 0), ByteOf(v, 1), ByteOf(v, 2), ByteOf(v, 3)>>

\* int16(x): conversion to a 16-bit signed integer wraps around.
Int16(x) == ((x + 32768) % 65536) - 32768

\* binary.Write(ew, binary.LittleEndian, int16)
LE16(v) == <<ByteOf(v, 0), ByteOf(v, 1)>>

Signed8(b) == IF b >= 128 THEN b - 256 ELSE b

\* binary.Read(er, binary.BigEndian, *int32) of the four bytes bs.
DecBE32(bs) == Signed8(bs[1]) * 16777216 + bs[2] * 65536 + bs[3] * 256 + bs[4]

\* binary.Read(er, binary.LittleEndian, *int32) of the four bytes bs.
DecLE32(bs) == Signed8(bs[4]) * 16777216 + bs[3] * 65536 + bs[2] * 256 + bs[1]

\* binary.Read(er, binary.LittleEndian, *int16) of the two bytes bs.
DecLE16(bs) == Signed8(bs[2]) * 256 + bs[1]

\* The float64 values of the model are the integers of Coords; NaF stands
\* for every other bit pattern.
Coords == {-1, 0, 1, 2}
NaF == 99

\* math.Float64bits followed by the little-endian write of the 8 bytes.
Float64bits(v) ==
    CASE v = 0  -> <<0, 0, 0, 0, 0, 0, 0, 0>>
      [] v = 1  -> <<0, 0, 0, 0, 0, 0, 240, 63>>
      [] v = 2  -> <<0, 0, 0, 0, 0, 0, 0, 64>>
      [] v = -1 -> <<0, 0, 0, 0, 0, 0, 240, 191>>
      [] OTHER  -> <<1, 0, 0, 0, 0, 0, 248, 127>>

\* The little-endian read of 8 bytes followed by math.Float64frombits.
Float64frombits(bs) ==
    IF \E v \in Coords : Float64bits(v) = bs
    THEN CHOOSE v \in Coords : Float64bits(v) = bs
    ELSE NaF

\* ------------------------------------------------------------- files
\* The bytes of file f from offset pos, at most n of them (a read at the
\* end of the file comes up short).
ReadAt(f, pos, n) ==
    IF pos >= Len(f) \/ pos < 0 THEN <<>>
    ELSE SubSeq(f, pos + 1, IF pos + n > Len(f) THEN Len(f) ELSE pos + n)

\* os.File.Write of bs at offset pos: overwrites, extends, and fills a gap
\* left by a seek beyond the end with zero bytes.
WriteAt(f, pos, bs) ==
    IF Len(bs) = 0 THEN f
    ELSE LET end == pos + Len(bs)
             n   == IF end > Len(f) THEN end ELSE Len(f)
         IN  [i \in 1..n |-> IF i > pos /\ i <= end THEN bs[i - pos]
                             ELSE IF i <= Len(f) THEN f[i] ELSE 0]

\* ------------------------------------------------------------ shapes
\* A shape in memory: its variant and, for a Point, its coordinates.
NullShape == [type |-> NULL, X |-> 0, Y |-> 0]
PointShape(x, y) == [type |-> POINT, X |-> x, Y |-> y]

\* The shape type tags newShape knows (reader's shapeConstructors).
KnownTypes == {0, 1, 3, 5, 8, 11, 13, 15, 18, 21, 23, 25, 28, 31}

\* The variants whose payload codec the model carries.
ModelledTypes == {NULL, POINT}

\* Box{MinX, MinY, MaxX, MaxY}
Box(a, b, c, d) == [MinX |-> a, MinY |-> b, MaxX |-> c, MaxY |-> d]
ZeroBox == Box(0, 0, 0, 0)

\* The shape types of the variants that hold a list of points.
POLYLINE == 3
POLYGON == 5
MULTIPOINT == 8
PointLists == {POLYLINE, POLYGON, MULTIPOINT}

\* Shape.BBox()
BBox(s) ==
    IF s.type = POINT THEN Box(s.X, s.Y, s.X, s.Y)
    ELSE IF s.type \in PointLists THEN s.Box
    ELSE ZeroBox

Min(a, b) == IF b < a THEN b ELSE a
Max(a, b) == IF b > a THEN b ELSE a

\* Box.Extend(box): the componentwise (min, max) union.
Extend(b, box) ==
    Box(Min(b.MinX, box.MinX), Min(b.MinY, box.MinY),
        Max(b.MaxX, box.MaxX), Max(b.MaxY, box.MaxY))

\* writeLE(ew, w.bbox): the four float64 of a Box.
writeBBox(b) ==
    Float64bits(b.MinX) \o Float64bits(b.MinY) \o Float64bits(b.MaxX) \o Float64bits(b.MaxY)

\* The bytes of a list of int32 and of a list of points.
writeInts(ns) == [i \in 1..(4 * Len(ns)) |-> LE32(ns[(i - 1) \div 4 + 1])[((i - 1) % 4) + 1]]
writePoints(ps) ==
    [i \in 1..(16 * Len(ps)) |->
        LET p == ps[(i - 1) \div 16 + 1]
        IN  (Float64bits(p.X) \o Float64bits(p.Y))[((i - 1) % 16) + 1]]

\* Shape.write: the payload bytes after the shape type tag.
ShapeWrite(s) ==
    IF s.type = POINT THEN Float64bits(s.X) \o Float64bits(s.Y)
    ELSE IF s.type \in {POLYLINE, POLYGON}
    THEN writeBBox(s.Box) \o LE32(Len(s.Parts)) \o LE32(Len(s.Points))
           \o writeInts(s.Parts) \o writePoints(s.Points)
    ELSE IF s.type = MULTIPOINT
    THEN writeBBox(s.Box) \o LE32(Len(s.Points)) \o writePoints(s.Points)
    ELSE <<>>

\* The number of payload bytes Shape.read asks for.
ShapeReadLen(t) == IF t = POINT THEN 16 ELSE 0

\* Shape.read of a full payload.
ShapeRead(t, bs) ==
    IF t = POINT
    THEN PointShape(Float64frombits(SubSeq(bs, 1, 8)), Float64frombits(SubSeq(bs, 9, 16)))
    ELSE NullShape

\* readFloat64 four times into a Box.
readBBox(bs) ==
    Box(Float64frombits(SubSeq(bs, 1, 8)), Float64frombits(SubSeq(bs, 9, 16)),
        Float64frombits(SubSeq(bs, 17, 24)), Float64frombits(SubSeq(bs, 25, 32)))

\* --------------------------------------------------------------- DBF
\* Field: the 11-byte name, the type character, the size and the precision
\* (the reserved bytes of the descriptor are zero).
Name11(bs) == bs \o Zeros(11 - Len(bs))
Field(name, t, size, prec) ==
    [Name |-> Name11(name), Fieldtype |-> t, Size |-> size, Precision |-> prec]

\* StringField / FloatField of the widths the model uses.
FieldC == Field(<<Ch.a>>, Ch.C, 2, 0)
FieldF == Field(<<Ch.b>>, Ch.F, 3, 1)

\* The schemas given to SetFields.
Schemas == {<<FieldC>>, <<FieldF, FieldC>>}

\* writeLE(ew, field): the 32-byte field descriptor.
writeField(f) ==
    f.Name \o <<f.Fieldtype>> \o Zeros(4) \o <<f.Size, f.Precision>> \o Zeros(14)

\* binary.Read of one 32-byte field descriptor.
readField(bs) ==
    [Name |-> SubSeq(bs, 1, 11), Fieldtype |-> bs[12], Size |-> bs[17], Precision |-> bs[18]]

RECURSIVE SumRange(_, _, _)
\* The sum of the sizes of the fields lo..hi, by halves.
SumRange(fields, lo, hi) ==
    IF lo > hi THEN 0
    ELSE IF lo = hi THEN fields[lo].Size
    ELSE SumRange(fields, lo, (lo + hi) \div 2) + SumRange(fields, (lo + hi) \div 2 + 1, hi)

\* The sum of the sizes of the first n fields.
SumSizes(fields, n) == SumRange(fields, 1, n)

\* calcNumFields: floor((headerLength - 33) / 32), the difference in int16.
calcNumFields(headerLength) ==
    Int16(headerLength - dbfHeaderFieldsBase) \div dbfFieldDescriptorLen

\* readDbfFields: numFields descriptors from offset 32 of the DBF file; a
\* short file is an error.
readDbfFieldsOk(f, numFields) ==
    numFields >= 0 /\ Len(f) >= 32 + numFields * dbfFieldDescriptorLen

readDbfFields(f, numFields) ==
    [i \in 1..numFields |->
        readField(SubSeq(f, 32 + (i - 1) * dbfFieldDescriptorLen + 1,
                            32 + i * dbfFieldDescriptorLen))]

\* dbfFieldStartByte: the byte index in a row where field n starts.
dbfFieldStartByte(fields, n) == dbfRowDeletionFlagSz + SumSizes(fields, n)

\* dbfFieldOffset: the absolute file offset of cell (row, n).
dbfFieldOffset(headerLength, recordLength, row, fields, n) ==
    LET base == dbfRowDeletionFlagSz + headerLength + row * recordLength
    IN  base + (dbfFieldStartByte(fields, n) - dbfRowDeletionFlagSz)

RECURSIVE Digits(_)
\* The decimal digits of a natural number.
Digits(n) == IF n < 10 THEN <<Ch.zero + n>> ELSE Digits(n \div 10) \o <<Ch.zero + (n % 10)>>

\* strconv.Itoa
Itoa(v) == IF v < 0 THEN <<Ch.minus>> \o Digits(0 - v) ELSE Digits(v)

\* strconv.FormatFloat(v, 'f', prec, 64) of the float64 h/2 (a multiple of
\* one half is exact in binary; precision 0 rounds half to even).
FormatFloat(h, prec) ==
    LET a    == IF h < 0 THEN 0 - h ELSE h
        ip   == a \div 2
        half == a % 2
        sign == IF h < 0 THEN <<Ch.minus>> ELSE <<>>
    IN  IF prec = 0
        THEN sign \o Digits(IF half = 1 /\ ip % 2 = 1 THEN ip + 1 ELSE ip)
        ELSE sign \o Digits(ip) \o <<Ch.dot, IF half = 1 THEN Ch.zero + 5 ELSE Ch.zero>>
                  \o [i \in 1..(prec - 1) |-> Ch.zero]

\* The values handed to WriteAttribute: int, float64 (in halves), string,
\* and a bool as a value of an unsupported type.
IntValue(v) == [kind |-> "int", n |-> v, s |-> <<>>]
FloatValue(h) == [kind |-> "float64", n |-> h, s |-> <<>>]
StringValue(bs) == [kind |-> "string", n |-> 0, s |-> bs]
BoolValue == [kind |-> "bool", n |-> 0, s |-> <<>>]

Values ==
    {IntValue(7), FloatValue(3), StringValue(<<Ch.a>>), StringValue(<<Ch.b, Ch.b>>),
     IntValue(1234), BoolValue}

\* strings.Trim(s, " "): leading and trailing spaces removed.
RECURSIVE TrimLeft(_)
TrimLeft(bs) == IF Len(bs) > 0 /\ bs[1] = SP THEN TrimLeft(Tail(bs)) ELSE bs
RECURSIVE TrimRight(_)
TrimRight(bs) ==
    IF Len(bs) > 0 /\ bs[Len(bs)] = SP THEN TrimRight(SubSeq(bs, 1, Len(bs) - 1)) ELSE bs
Trim(bs) == TrimRight(TrimLeft(bs))

\* ------------------------------------------------------------- state
VARIABLES
    pc,      \* "init", "writer", "closed", "reader" or "crashed" (after a panic)
    shp,     \* the bytes of the .shp file
    shx,     \* the bytes of the .shx file
    dbf,     \* the bytes of the .dbf file
    w,       \* the Writer
    r,       \* the Reader
    log,     \* one entry per Write call: where the record went and what was written
    attrLog, \* one entry per WriteAttribute call that returned nil, in call order
    yielded, \* one entry per Next call of the open Reader that returned true
    last,    \* the last call and what it returned
    nApp,    \* the number of Append calls so far
    orig     \* the shapefile that was on disk at the start, kept for comparison

vars == <<pc, shp, shx, dbf, w, r, log, attrLog, yielded, last, nApp, orig>>

\* The shape types given to Create and the shapes given to Write.
FileTypes == {NULL, POINT}
Shapes == {NullShape, PointShape(1, 1), PointShape(2, -1)}

Result(op, res, n, s) == [op |-> op, res |-> res, n |-> n, s |-> s]

\* A Writer that was not opened yet; w.dbf is "nil", "rw" (os.Create) or
\* "ro" (os.Open).
NoWriter ==
    [GeometryType |-> NULL, num |-> 0, bbox |-> ZeroBox, shpPos |-> 0, shxPos |-> 0,
     dbf |-> "nil", dbfFields |-> <<>>, dbfHeaderLength |-> 0, dbfRecordLength |-> 0]

\* A Reader that was not opened yet; r.shp is "nil", "open" or "closed";
\* r.dbf is "nil", "ro" (os.Open), "invalid" (the nil *os.File of a failed
\* os.Open, held in the interface) or "closed".
NoReader ==
    [GeometryType |-> NULL, bbox |-> ZeroBox, err |-> "nil", pos |-> 0, num |-> 0,
     shp |-> "nil",
     shape |-> NullShape, filelength |-> 0, IgnoreCorruptedShapes |-> FALSE,
     dbf |-> "nil", dbfFields |-> <<>>, dbfNumRecords |-> 0,
     dbfHeaderLength |-> 0, dbfRecordLength |-> 0]

\* No shapefile on disk before the first Create.
NoOrig == [shp |-> <<>>, shx |-> <<>>, dbf |-> <<>>]

Init ==
    /\ pc = "init"
    /\ shp = <<>>
    /\ shx = <<>>
    /\ dbf = <<>>
    /\ w = NoWriter
    /\ r = NoReader
    /\ log = <<>>
    /\ attrLog = <<>>
    /\ yielded = <<>>
    /\ last = Result("none", "nil", 0, <<>>)
    /\ nApp = 0
    /\ orig = NoOrig

\* ------------------------------------------------------------ Writer
\* Create: both files are created empty (os.Create truncates a file that
\* exists) and their cursors put at 100.  The .dbf is not touched.
Create(t) ==
    /\ pc \in {"init", "closed"}
    /\ shp' = <<>>
    /\ shx' = <<>>
    /\ w' = [NoWriter EXCEPT !.GeometryType = t, !.shpPos = shpHeaderLen,
                             !.shxPos = shpHeaderLen]
    /\ pc' = "writer"
    /\ log' = <<>>
    /\ attrLog' = <<>>
    /\ last' = Result("Create", "nil", 0, <<>>)
    /\ UNCHANGED <<dbf, r, yielded, nApp, orig>>

\* A Write that extends the box on every record, the first included.
WriteBBoxAlwaysExtend(wr, s) == Extend(wr.bbox, BBox(s))

\* Write, "increate bbox": the first record's box is taken, later ones extend.
WriteBBox(wr, s) == IF wr.num = 0 THEN BBox(s) ELSE Extend(wr.bbox, BBox(s))

\* Write: length := int32(math.Floor((finish - start) / 2.0))
contentLength(start, finish) == (finish - start) \div 2

\* An index offset that names the shape type tag instead of the header.
shxOffsetOfTag(start) == start \div 2

\* Write: the offset of the .shx entry, int32((start-8)/2)
shxOffset(start) == (start - 8) \div 2

\* Write: the shape type tag of the record.
recordTag(wr, s) == wr.GeometryType

\* writeEmptyRecord: buf := make([]byte, w.dbfRecordLength); buf[0] = ' '
emptyRecord(recordLength) == [i \in 1..recordLength |-> IF i = 1 THEN SP ELSE 0]

\* A write through an errWriter on the DBF handle: a handle opened by
\* os.Open is read-only, the write fails and nothing is written.
dbfWriteAt(handle, f, pos, bs) == IF handle = "rw" THEN WriteAt(f, pos, bs) ELSE f

\* writeEmptyRecord: make([]byte, n) panics for a negative n, and buf[0]
\* for n = 0.
writeEmptyRecordPanics(wr) == wr.dbfRecordLength <= 0

\* writeEmptyRecord: seek to the end and write the empty row.
writeEmptyRecord(wr, f) == dbfWriteAt(wr.dbf, f, Len(f), emptyRecord(wr.dbfRecordLength))

\* SetFields: for n := 0; n < w.num; n++ { w.writeEmptyRecord() }, each
\* row written at the end of the file.
writeEmptyRecords(wr, f, n) ==
    IF n <= 0 \/ wr.dbfRecordLength <= 0 THEN f
    ELSE dbfWriteAt(wr.dbf, f, Len(f),
                    [i \in 1..(n * wr.dbfRecordLength) |->
                        emptyRecord(wr.dbfRecordLength)[((i - 1) % wr.dbfRecordLength) + 1]])

Write(s) ==
    /\ pc = "writer"
    /\ Len(log) < MaxRecords
    /\ LET num1   == w.num + 1
           p      == w.shpPos
           start  == p + 8
           f1     == WriteAt(shp, p, BE32(num1))
           f2     == WriteAt(f1, start, LE32(recordTag(w, s)))
           f3     == WriteAt(f2, start + 4, ShapeWrite(s))
           finish == start + 4 + Len(ShapeWrite(s))
           length == contentLength(start, finish)
           f4     == WriteAt(f3, start - 4, BE32(length))
       IN  /\ shp' = f4
           /\ shx' = WriteAt(shx, w.shxPos, BE32(shxOffset(start)) \o BE32(length))
           /\ dbf' = IF w.dbf # "nil" /\ ~writeEmptyRecordPanics(w)
                     THEN writeEmptyRecord(w, dbf) ELSE dbf
           /\ pc' = IF w.dbf # "nil" /\ writeEmptyRecordPanics(w) THEN "crashed" ELSE pc
           /\ w' = [w EXCEPT !.bbox = WriteBBox(w, s), !.num = num1,
                             !.shpPos = finish, !.shxPos = w.shxPos + 8]
           /\ log' = Append(log, [hdr |-> p, start |-> start, finish |-> finish,
                                  shape |-> s, type |-> w.GeometryType,
                                  shxAt |-> w.shxPos, ret |-> num1 - 1,
                                  dbfLen |-> Len(dbf), handle |-> w.dbf,
                                  recLen |-> w.dbfRecordLength, app |-> nApp])
           /\ last' = Result("Write",
                             IF w.dbf # "nil" /\ writeEmptyRecordPanics(w)
                             THEN "panic" ELSE "nil",
                             num1 - 1, <<>>)
    /\ UNCHANGED <<r, attrLog, yielded, nApp, orig>>

\* A SetFields without its guard.
SetFieldsNeverRefused(wr) == FALSE

\* SetFields: the guard on an initialised DBF.
SetFieldsRefused(wr) == wr.dbf # "nil"

\* SetFields: the record length, 1 plus the field sizes, summed in int16.
dbfRecordLengthOf(fields) == Int16(1 + SumSizes(fields, Len(fields)))

\* SetFields: the header length, int16(len(fields)*32 + 33).
dbfHeaderLengthOf(fields) == Int16(Len(fields) * dbfFieldDescriptorLen + dbfHeaderFieldsBase)

\* SetFields past its guard: the Writer it leaves.
SetFieldsWriter(wr, fields) ==
    [wr EXCEPT !.dbf = "rw", !.dbfFields = fields,
               !.dbfRecordLength = dbfRecordLengthOf(fields),
               !.dbfHeaderLength = dbfHeaderLengthOf(fields)]

\* SetFields past its guard: the .dbf file it creates, the header space
\* zeroed and one empty row per record written so far.
SetFieldsFile(wr, fields) ==
    LET w1 == SetFieldsWriter(wr, fields)
    IN  writeEmptyRecords(w1, Zeros(w1.dbfHeaderLength), wr.num)

\* SetFields past its guard: whether it panics, in make([]byte, headerLength)
\* or in the first writeEmptyRecord.
SetFieldsPanics(wr, fields) ==
    \/ dbfHeaderLengthOf(fields) < 0
    \/ wr.num > 0 /\ writeEmptyRecordPanics(SetFieldsWriter(wr, fields))

SetFields(fields) ==
    /\ pc = "writer"
    /\ IF SetFieldsRefused(w)
       THEN /\ last' = Result("SetFields", "error", 0, <<>>)
            /\ UNCHANGED <<w, dbf, pc>>
       ELSE /\ w' = SetFieldsWriter(w, fields)
            /\ dbf' = SetFieldsFile(w, fields)
            /\ pc' = IF SetFieldsPanics(w, fields) THEN "crashed" ELSE pc
            /\ last' = Result("SetFields",
                              IF SetFieldsPanics(w, fields) THEN "panic" ELSE "nil",
                              0, <<>>)
    /\ UNCHANGED <<shp, shx, r, log, attrLog, yielded, nApp, orig>>

\* WriteAttribute, the type switch: the bytes of the value.  The float64
\* case indexes w.dbfFields[field] for the precision, before any check.
valueKindOk(value) == value.kind \in {"int", "float64", "string"}

fieldInRange(wr, field) == field >= 0 /\ field < Len(wr.dbfFields)

\* Whether the type switch panics (index out of range).
switchPanics(wr, field, value) == value.kind = "float64" /\ ~fieldInRange(wr, field)

valueBytes(wr, field, value) ==
    CASE value.kind = "int"     -> Itoa(value.n)
      [] value.kind = "float64" -> FormatFloat(value.n, wr.dbfFields[field + 1].Precision)
      [] OTHER                  -> value.s

\* WriteAttribute: what the call returns, "nil", "error" or "panic", in the
\* order of the code's checks.
WriteAttributeResult(wr, row, field, value) ==
    IF switchPanics(wr, field, value) THEN "panic"
    ELSE IF ~valueKindOk(value) THEN "error"
    ELSE IF wr.dbf = "nil" THEN "error"
    ELSE IF ~fieldInRange(wr, field) THEN "panic"
    ELSE IF Len(valueBytes(wr, field, value)) > wr.dbfFields[field + 1].Size THEN "error"
    ELSE IF wr.dbf # "rw" THEN "error"
    ELSE "nil"

\* WriteAttribute: the bytes written at the cell's offset.
cellBytes(wr, field, value) == valueBytes(wr, field, value)

\* WriteAttribute: the .dbf file after the call.
WriteAttributeFile(wr, f, row, field, value) ==
    IF WriteAttributeResult(wr, row, field, value) = "nil"
    THEN dbfWriteAt(wr.dbf, f,
                    dbfFieldOffset(wr.dbfHeaderLength, wr.dbfRecordLength, row,
                                   wr.dbfFields, field),
                    cellBytes(wr, field, value))
    ELSE f

WriteAttribute(row, field, value) ==
    /\ pc = "writer"
    /\ LET res == WriteAttributeResult(w, row, field, value)
       IN  /\ dbf' = WriteAttributeFile(w, dbf, row, field, value)
           /\ pc' = IF res = "panic" THEN "crashed" ELSE pc
           /\ attrLog' = IF res = "nil"
                         THEN Append(attrLog, [row |-> row, field |-> field,
                                               buf |-> valueBytes(w, field, value),
                                               num |-> w.num])
                         ELSE attrLog
           /\ last' = Result("WriteAttribute", res, 0, <<>>)
    /\ UNCHANGED <<shp, shx, w, r, log, yielded, nApp, orig>>

\* writeHeader: the 100 bytes of the SHP/SHX header.
headerBytes(wr, filelength) ==
    BE32(shpFileCode) \o BE32(0) \o BE32(0) \o BE32(0) \o BE32(0) \o BE32(0)
      \o BE32(filelength \div 2)
      \o LE32(shpVersion) \o LE32(wr.GeometryType)
      \o writeBBox(wr.bbox)
      \o Float64bits(0) \o Float64bits(0) \o Float64bits(0) \o Float64bits(0)

\* writeHeader: the file length is that of the file, 100 for an empty one.
writeHeader(wr, f) ==
    LET filelength == IF Len(f) = 0 THEN shpHeaderLen ELSE Len(f)
    IN  WriteAt(f, 0, headerBytes(wr, filelength))

\* writeDbfHeader: for _, field := range w.dbfFields { writeLE(ew, field) }
writeFields(fields, n) ==
    [i \in 1..(n * dbfFieldDescriptorLen) |->
        LET d == writeField(fields[(i - 1) \div dbfFieldDescriptorLen + 1])
        IN  d[((i - 1) % dbfFieldDescriptorLen) + 1]]

\* writeDbfHeader: version and date, record count, the two lengths, the
\* padding, the field descriptors and the terminator.
dbfHeaderBytes(wr) ==
    <<3, 24, 5, 3>> \o LE32(wr.num)
      \o LE16(wr.dbfHeaderLength) \o LE16(wr.dbfRecordLength)
      \o Zeros(dbfHeaderPaddingLen)
      \o writeFields(wr.dbfFields, Len(wr.dbfFields))
      \o <<CR>>

writeDbfHeader(wr, f) == dbfWriteAt(wr.dbf, f, 0, dbfHeaderBytes(wr))

\* Close: both headers, the empty schema when SetFields was never called,
\* and the DBF header.
Close ==
    /\ pc = "writer"
    /\ shx' = writeHeader(w, shx)
    /\ shp' = writeHeader(w, shp)
    /\ LET w1 == IF w.dbf = "nil" THEN SetFieldsWriter(w, <<>>) ELSE w
           d1 == IF w.dbf = "nil" THEN SetFieldsFile(w, <<>>) ELSE dbf
       IN  /\ w' = w1
           /\ dbf' = writeDbfHeader(w1, d1)
    /\ pc' = "closed"
    /\ last' = Result("Close", "nil", 0, <<>>)
    /\ UNCHANGED <<r, log, attrLog, yielded, nApp, orig>>

\* openAndInitWriter: the geometry type and the bounding box of the header.
openAndInitWriterOk(f) == Len(f) >= shpOffsetToGeomType + 4 + 32

\* openAndPositionIndex: the last index entry names the last record, whose
\* number is read from the .shp.
lastIndexOffset(x) == DecBE32(ReadAt(x, Len(x) - 8, 4)) * 2

openAndPositionIndexOk(f, x) ==
    /\ Len(x) >= 8
    /\ lastIndexOffset(x) >= 0
    /\ Len(ReadAt(f, lastIndexOffset(x), 4)) = 4

lastRecordNumber(f, x) == DecBE32(ReadAt(f, lastIndexOffset(x), 4))

\* openAndInitDbf: os.IsNotExist.  A .dbf of no bytes stands for no .dbf
\* file on disk.
dbfNotExist(d) == d = <<>>

\* openAndInitDbf: the two lengths and the fields of the existing header;
\* it is no error if the file does not exist.
openAndInitDbfOk(d) ==
    \/ dbfNotExist(d)
    \/ /\ Len(d) >= dbfOffsetHeaderLen + 4
       /\ readDbfFieldsOk(d, calcNumFields(DecLE16(ReadAt(d, dbfOffsetHeaderLen, 2))))

\* Append: the Writer it returns.  The DBF, if there is one, is opened with
\* os.Open.
AppendWriter(f, x, d) ==
    LET hl == IF dbfNotExist(d) THEN 0 ELSE DecLE16(ReadAt(d, dbfOffsetHeaderLen, 2))
    IN  [GeometryType |-> DecLE32(ReadAt(f, shpOffsetToGeomType, 4)),
         num |-> lastRecordNumber(f, x),
         bbox |-> readBBox(ReadAt(f, shpOffsetToGeomType + 4, 32)),
         shpPos |-> Len(f), shxPos |-> Len(x),
         dbf |-> IF dbfNotExist(d) THEN "nil" ELSE "ro",
         dbfFields |-> IF dbfNotExist(d) THEN <<>> ELSE readDbfFields(d, calcNumFields(hl)),
         dbfHeaderLength |-> hl,
         dbfRecordLength |-> IF dbfNotExist(d) THEN 0
                             ELSE DecLE16(ReadAt(d, dbfOffsetHeaderLen + 2, 2))]

\* Append on the shapefile on disk.
AppendOpen ==
    /\ pc = "closed"
    /\ nApp < MaxAppends
    /\ nApp' = nApp + 1
    /\ IF openAndInitWriterOk(shp) /\ openAndPositionIndexOk(shp, shx) /\ openAndInitDbfOk(dbf)
       THEN /\ w' = AppendWriter(shp, shx, dbf)
            /\ pc' = "writer"
            /\ last' = Result("Append", "nil", 0, <<>>)
       ELSE /\ last' = Result("Append", "error", 0, <<>>)
            /\ UNCHANGED <<w, pc>>
    /\ UNCHANGED <<shp, shx, dbf, r, log, attrLog, yielded, orig>>

\* ------------------------------------------------------------ Reader
\* The extensions of the file names given to Open, and strings.ToLower.
Exts == {".shp", ".SHP", ".dbf"}
ToLower(ext) == IF ext = ".SHP" THEN ".shp" ELSE ext

\* readShpHeaderSeeker: the file length is the size of the file; the
\* geometry type and the box are read at offset 32, a short read is an error.
readShpHeaderSeekerOk(f) == Len(f) >= shpOffsetToGeomType + 4 + 32

\* readHeaders: the iteration bound of the Reader.
readerFilelength(f) == Len(f)

\* OpenWithConfig and readHeaders: the Reader on the file f, which keeps
\* the configuration it is given.
newReader(f, ignore) ==
    [NoReader EXCEPT
        !.IgnoreCorruptedShapes = ignore,
        !.shp = "open",
        !.filelength = readerFilelength(f),
        !.GeometryType = DecLE32(ReadAt(f, shpOffsetToGeomType, 4)),
        !.bbox = readBBox(ReadAt(f, shpOffsetToGeomType + 4, 32)),
        !.pos = shpHeaderLen]

OpenWithConfig(ext, ignore) ==
    /\ pc = "closed"
    /\ IF ToLower(ext) = ".shp" /\ readShpHeaderSeekerOk(shp)
       THEN /\ r' = newReader(shp, ignore)
            /\ pc' = "reader"
            /\ last' = Result("Open", "nil", 0, <<>>)
       ELSE /\ last' = Result("Open", "error", 0, <<>>)
            /\ UNCHANGED <<r, pc>>
    /\ yielded' = <<>>
    /\ UNCHANGED <<shp, shx, dbf, w, log, attrLog, nApp, orig>>

\* Open: OpenWithConfig in strict mode (DefaultReaderConfig).
Open(ext) == OpenWithConfig(ext, FALSE)

\* readShapeRecordHeader: three 4-byte reads through one errReader.  A read
\* that finds no byte left is io.EOF, one that finds some but not four is
\* io.ErrUnexpectedEOF.
readShapeRecordHeader(f, pos) ==
    LET avail == Len(f) - pos
        bs    == ReadAt(f, pos, 12)
    IN  IF avail >= 12
        THEN [err |-> "nil", num |-> DecBE32(SubSeq(bs, 1, 4)),
              size |-> DecBE32(SubSeq(bs, 5, 8)), shapetype |-> DecLE32(SubSeq(bs, 9, 12))]
        ELSE [err |-> IF avail <= 0 \/ avail = 4 \/ avail = 8 THEN "EOF" ELSE "UnexpectedEOF",
              num |-> 0, size |-> 0, shapetype |-> 0]

\* newShape: whether the constructor table has the shape type.
newShapeOk(shapetype) == shapetype \in KnownTypes

\* Next: if size < 0, the record is refused.
sizeRefused(size) == size < 0

\* An end of record that forgets the 8 bytes of the record header.
expectedEndPosNoHeader(cur, size) == cur + size * 2

\* Next: the end of the record, cur + size*2 + 8.
expectedEndPos(cur, size) == cur + size * 2 + 8

\* Next in strict mode: the Reader after the call and whether it returned
\* true.  The payload is read at cur + 12 by the shape's read.
NextStrict(rd, f) ==
    LET cur == rd.pos
        h   == readShapeRecordHeader(f, cur)
        pay == ReadAt(f, cur + 12, ShapeReadLen(h.shapetype))
    IN  IF cur >= rd.filelength
        THEN [r |-> rd, ok |-> FALSE]
        ELSE IF h.err = "EOF"
        THEN [r |-> [rd EXCEPT !.pos = Len(f)], ok |-> FALSE]
        ELSE IF h.err # "nil"
        THEN [r |-> [rd EXCEPT !.pos = Len(f), !.err = "error"], ok |-> FALSE]
        ELSE IF sizeRefused(h.size)
        THEN [r |-> [rd EXCEPT !.pos = cur + 12, !.err = "error"], ok |-> FALSE]
        ELSE IF expectedEndPos(cur, h.size) > rd.filelength
        THEN [r |-> [rd EXCEPT !.pos = cur + 12, !.err = "error"], ok |-> FALSE]
        ELSE IF ~newShapeOk(h.shapetype)
        THEN [r |-> [rd EXCEPT !.pos = cur + 12, !.num = h.num, !.err = "error"],
              ok |-> FALSE]
        ELSE IF h.shapetype \notin ModelledTypes
        THEN [r |-> [rd EXCEPT !.pos = cur + 12, !.num = h.num, !.err = "error"],
              ok |-> FALSE]
        ELSE IF Len(pay) < ShapeReadLen(h.shapetype)
        THEN [r |-> [rd EXCEPT !.pos = Len(f), !.num = h.num, !.err = "error"],
              ok |-> FALSE]
        ELSE [r |-> [rd EXCEPT !.pos = expectedEndPos(cur, h.size), !.num = h.num,
                               !.shape = ShapeRead(h.shapetype, pay)],
              ok |-> TRUE]

\* trySkipToNextValidShape: the sanity bound on the content length of a
\* candidate and the greatest shape type tag it takes.
maxCandidateSize == 100000
MULTIPATCH == 31

\* trySkipToNextValidShape: whether the record header read at pos looks
\* like one of a record.
isCandidate(rd, h, pos) ==
    /\ h.size >= 0
    /\ h.size < maxCandidateSize
    /\ h.shapetype >= NULL
    /\ h.shapetype <= MULTIPATCH
    /\ expectedEndPos(pos, h.size) <= rd.filelength

\* A seek after a skipped record that lands 4 bytes behind its end.
nextPosBehindEnd(cur, size) == cur + size * 2 + 12

\* Next: nextPos := cur + int64(size)*2 + 8, the offset Next seeks to after
\* the record at cur, read or skipped.
nextPos(cur, size) == cur + size * 2 + 8

RECURSIVE NextResync(_, _)
RECURSIVE scanFrom(_, _, _)
RECURSIVE trySkipToNextValidShape(_, _, _)

\* Next with IgnoreCorruptedShapes: the Reader after the call, whether it
\* returned true, and the offset of the record it read.  A record header
\* that cannot be read, a negative content length and an end beyond the
\* bound go to trySkipToNextValidShape; an unknown shape type and a short
\* payload seek to the end of the record and call Next again.
NextResync(rd, f) ==
    LET cur  == rd.pos
        h    == readShapeRecordHeader(f, cur)
        pay  == ReadAt(f, cur + 12, ShapeReadLen(h.shapetype))
        next == nextPos(cur, h.size)
    IN  IF cur >= rd.filelength
        THEN [r |-> rd, ok |-> FALSE, at |-> cur]
        ELSE IF h.err = "EOF"
        THEN [r |-> [rd EXCEPT !.pos = Len(f)], ok |-> FALSE, at |-> cur]
        ELSE IF h.err # "nil"
        THEN trySkipToNextValidShape([rd EXCEPT !.pos = Len(f)], f, cur)
        ELSE IF sizeRefused(h.size) \/ expectedEndPos(cur, h.size) > rd.filelength
        THEN trySkipToNextValidShape([rd EXCEPT !.pos = cur + 12], f, cur)
        ELSE IF ~newShapeOk(h.shapetype) \/ h.shapetype \notin ModelledTypes
        THEN NextResync([rd EXCEPT !.pos = next, !.num = h.num], f)
        ELSE IF Len(pay) < ShapeReadLen(h.shapetype)
        THEN NextResync([rd EXCEPT !.pos = next, !.num = h.num], f)
        ELSE [r |-> [rd EXCEPT !.pos = next, !.num = h.num,
                               !.shape = ShapeRead(h.shapetype, pay)],
              ok |-> TRUE, at |-> cur]

\* trySkipToNextValidShape(currentPos) is scanFrom(currentPos + 8): the
\* loop over pos in steps of 4 while pos < r.filelength - 8, which calls
\* Next at the first candidate and returns false when there is none.
scanFrom(rd, f, pos) ==
    LET h == readShapeRecordHeader(f, pos)
    IN  IF pos >= rd.filelength - 8
        THEN [r |-> rd, ok |-> FALSE, at |-> pos]
        ELSE IF h.err # "nil"
        THEN scanFrom([rd EXCEPT !.pos = Len(f)], f, pos + 4)
        ELSE IF isCandidate(rd, h, pos)
        THEN NextResync([rd EXCEPT !.pos = pos], f)
        ELSE scanFrom([rd EXCEPT !.pos = pos + 12], f, pos + 4)

trySkipToNextValidShape(rd, f, currentPos) == scanFrom(rd, f, currentPos + 8)

\* Shape(): the index of the most recent record, int(r.num) - 1.
ShapeIndex(rd) == rd.num - 1

\* Next under the Reader's configuration.
NextOf(rd, f) ==
    IF rd.IgnoreCorruptedShapes
    THEN NextResync(rd, f)
    ELSE LET n == NextStrict(rd, f) IN [r |-> n.r, ok |-> n.ok, at |-> rd.pos]

ReaderNext ==
    /\ pc = "reader"
    /\ LET n == NextOf(r, shp)
       IN  /\ r' = n.r
           /\ yielded' = IF n.ok
                         THEN Append(yielded, [num |-> n.r.num, index |-> ShapeIndex(n.r),
                                               shape |-> n.r.shape, at |-> n.at])
                         ELSE yielded
           /\ last' = Result("Next", IF n.ok THEN "true" ELSE "false", 0, <<>>)
    /\ UNCHANGED <<pc, shp, shx, dbf, w, log, attrLog, nApp, orig>>

\* openDbf: the header of the DBF, read on the first attribute access.
openDbf(rd, d) ==
    IF rd.dbf # "nil" THEN rd
    ELSE IF dbfNotExist(d) THEN [rd EXCEPT !.dbf = "invalid"]
    ELSE LET hl == DecLE16(ReadAt(d, dbfOffsetNumRecords + 4, 2) \o Zeros(2))
             nf == calcNumFields(hl)
         IN  [rd EXCEPT
                !.dbf = "ro",
                !.dbfNumRecords = DecLE32(ReadAt(d, dbfOffsetNumRecords, 4) \o Zeros(4)),
                !.dbfHeaderLength = hl,
                !.dbfRecordLength = DecLE16(ReadAt(d, dbfOffsetNumRecords + 6, 2) \o Zeros(2)),
                !.dbfFields = IF readDbfFieldsOk(d, nf) THEN readDbfFields(d, nf) ELSE <<>>]

\* ReadAttribute: the cell's bytes in a buffer of the field's size (bytes
\* beyond the end of the file stay zero), trimmed of spaces.
readCell(rd, d, row, field) ==
    LET seekTo == dbfFieldOffset(rd.dbfHeaderLength, rd.dbfRecordLength, row,
                                 rd.dbfFields, field)
        size   == rd.dbfFields[field + 1].Size
        got    == ReadAt(d, seekTo, size)
    IN  Trim(got \o Zeros(size - Len(got)))

ReadAttribute(row, field) ==
    /\ pc = "reader"
    /\ LET r1 == openDbf(r, dbf)
       IN  /\ r' = r1
           /\ IF field >= 0 /\ field < Len(r1.dbfFields)
              THEN /\ last' = Result("ReadAttribute", "nil", row,
                                     <<field>> \o readCell(r1, dbf, row, field))
                   /\ pc' = pc
              ELSE /\ last' = Result("ReadAttribute", "panic", row, <<field>>)
                   /\ pc' = "crashed"
    /\ UNCHANGED <<shp, shx, dbf, w, log, attrLog, yielded, nApp, orig>>

\* Reader.Close: if r.err is nil the .shp handle is closed, and the .dbf
\* handle if r.dbf is not nil (Close on the nil *os.File fails and is
\* ignored); it returns r.err.
closeHandles(rd) ==
    IF rd.err = "nil"
    THEN [rd EXCEPT !.shp = "closed",
                    !.dbf = IF rd.dbf = "ro" THEN "closed" ELSE rd.dbf]
    ELSE rd

ReaderClose ==
    /\ pc = "reader"
    /\ pc' = "closed"
    /\ r' = closeHandles(r)
    /\ last' = Result("ReaderClose", r.err, 0, <<>>)
    /\ UNCHANGED <<shp, shx, dbf, w, log, attrLog, yielded, nApp, orig>>

\* ------------------------------------------------------ specification
Rows == 0..MaxRecords
FieldIndexes == 0..2

\* The Writer under every order of its calls, on a new shapefile (one Create
\* in a behaviour) and on one reopened with Append.
Next ==
    \/ \E t \in FileTypes : pc = "init" /\ Create(t)
    \/ \E s \in Shapes : Write(s)
    \/ \E fields \in Schemas : SetFields(fields)
    \/ /\ Len(attrLog) < MaxAttrWrites
       /\ \E row \in Rows, field \in FieldIndexes, value \in Values :
             WriteAttribute(row, field, value)
    \/ Close
    \/ AppendOpen

Spec == Init /\ [][Next]_vars

\* A shapefile written by Create, Write, SetFields and Close, then read by a
\* strict Reader.
NextRead ==
    \/ \E t \in FileTypes : pc = "init" /\ Create(t)
    \/ \E s \in Shapes : Write(s)
    \/ \E fields \in Schemas : SetFields(fields)
    \/ Close
    \/ \E ext \in Exts : Open(ext)
    \/ ReaderNext
    \/ ReaderClose

SpecRead == Init /\ [][NextRead]_vars

\* The attribute table: one kind of shape, every attribute value, and the
\* cells read back.
NextDbf ==
    \/ pc = "init" /\ Create(POINT)
    \/ Write(PointShape(1, 1))
    \/ \E fields \in Schemas : SetFields(fields)
    \/ /\ Len(attrLog) < MaxDbfAttrWrites
       /\ \E row \in Rows, field \in FieldIndexes, value \in Values :
             WriteAttribute(row, field, value)
    \/ Close
    \/ Open(".shp")
    \/ \E row \in Rows, field \in FieldIndexes : ReadAttribute(row, field)
    \/ ReaderClose

SpecDbf == Init /\ [][NextDbf]_vars

\* ------------------------------------------------------------- claims
\* The i-th entry of the .shx file.
ShxEntry(i) == ReadAt(shx, shpHeaderLen + 8 * (i - 1), 8)

\* C1: after any sequence of Write calls, on a Writer opened with Create or
\* with Append, the i-th .shx entry holds the offset of record i's header
\* in the .shp, in 16-bit words, and the length in words of the bytes from
\* the record's shape type tag to the end of its payload; the same length
\* is in the length field of the record's header.
C1_IndexMatchesRecords ==
    \A i \in 1..Len(log) :
        /\ Len(ShxEntry(i)) = 8
        /\ DecBE32(SubSeq(ShxEntry(i), 1, 4)) * 2 = log[i].hdr
        /\ DecBE32(SubSeq(ShxEntry(i), 5, 8)) * 2 = log[i].finish - (log[i].hdr + 8)
        /\ DecBE32(ReadAt(shp, log[i].hdr + 4, 4)) = DecBE32(SubSeq(ShxEntry(i), 5, 8))
        /\ log[i].hdr = IF i = 1 THEN shpHeaderLen ELSE log[i - 1].finish

\* Two records, the second written through a Writer opened with Append.
C1_Witness ==
    /\ Len(log) = 2
    /\ log[1].app = 0
    /\ log[2].app = 1
    /\ log[2].shape.type = POINT

\* Every shape written so far is of the Writer's declared type.
DeclaredOnly == \A i \in 1..Len(log) : log[i].shape.type = log[i].type

\* Reader.Err()
Err(rd) == IF rd.err = "EOF" THEN "nil" ELSE rd.err

\* C3: on a shapefile made by Create, N Write calls of shapes of the declared
\* type and Close, the k-th Next of a strict Reader that returns true yields
\* record number k, index k-1 and the k-th shape written; Next returns
\* false only after N records, and Err() is nil then.
C3_ReadsBackInOrder ==
    (pc = "reader" /\ DeclaredOnly) =>
        /\ Len(yielded) <= Len(log)
        /\ \A k \in 1..Len(yielded) :
              /\ yielded[k].num = k
              /\ yielded[k].index = k - 1
              /\ yielded[k].shape = log[k].shape
              /\ yielded[k].at = log[k].hdr
        /\ (last.op = "Next" /\ last.res = "false") =>
              (Len(yielded) = Len(log) /\ Err(r) = "nil")
        /\ (last.op = "Next" /\ last.res = "true") => Err(r) = "nil"

\* Two points written, both read back, and Next has returned false.
C3_Witness ==
    /\ pc = "reader"
    /\ DeclaredOnly
    /\ Len(log) = 2
    /\ log[1].shape = PointShape(1, 1)
    /\ log[2].shape = PointShape(2, -1)
    /\ Len(yielded) = 2
    /\ last.op = "Next"
    /\ last.res = "false"

\* The componentwise (min, max) union of a non-empty set of boxes.
UnionBox(B) ==
    Box(CHOOSE v \in {b.MinX : b \in B} : \A b \in B : v <= b.MinX,
        CHOOSE v \in {b.MinY : b \in B} : \A b \in B : v <= b.MinY,
        CHOOSE v \in {b.MaxX : b \in B} : \A b \in B : v >= b.MaxX,
        CHOOSE v \in {b.MaxY : b \in B} : \A b \in B : v >= b.MaxY)

\* The boxes of the shapes written through the a-th Writer (0 is the one
\* Create returned, a > 0 the one the a-th Append returned).
WrittenBoxes(a) == {BBox(log[i].shape) : i \in {j \in 1..Len(log) : log[j].app = a}}

RECURSIVE HeaderBoxAfter(_)
\* The box in the header once the a-th Writer is closed.
HeaderBoxAfter(a) ==
    IF a = 0
    THEN IF WrittenBoxes(0) = {} THEN ZeroBox ELSE UnionBox(WrittenBoxes(0))
    ELSE IF WrittenBoxes(a) = {} THEN HeaderBoxAfter(a - 1)
         ELSE UnionBox(WrittenBoxes(a) \cup {HeaderBoxAfter(a - 1)})

\* The bounding box stored in a SHP/SHX header.
StoredBox(f) == readBBox(ReadAt(f, shpOffsetToGeomType + 4, 32))

\* C4: after Close of a Writer on which at least one shape was written, the
\* box in the .shp and .shx headers is the union of the boxes of the shapes
\* written; a Writer from Create takes the first box unchanged, one from
\* Append also unions the box it read from the existing header.
C4_HeaderBoxIsUnion ==
    (pc = "closed" /\ WrittenBoxes(nApp) # {}) =>
        /\ StoredBox(shp) = HeaderBoxAfter(nApp)
        /\ StoredBox(shx) = HeaderBoxAfter(nApp)
        /\ nApp = 0 => StoredBox(shp) = UnionBox(WrittenBoxes(0))

\* A closed shapefile of two points: one from the Writer of Create, one from
\* the Writer of Append.
C4_Witness ==
    /\ pc = "closed"
    /\ nApp = 1
    /\ Len(log) = 2
    /\ log[1].app = 0
    /\ log[1].shape = PointShape(1, 1)
    /\ log[2].app = 1
    /\ log[2].shape = PointShape(2, -1)
    /\ StoredBox(shp) = Box(1, -1, 2, 1)

\* C10: SetFields on a Writer whose DBF is initialised, by an earlier
\* SetFields or by Append, returns an error and leaves the fields, the two
\* DBF lengths and the .dbf file as they were.
C10_SecondSetFieldsRefused ==
    [][(pc = "writer" /\ w.dbf # "nil" /\ last'.op = "SetFields") =>
          /\ last'.res = "error"
          /\ w'.dbfFields = w.dbfFields
          /\ w'.dbfHeaderLength = w.dbfHeaderLength
          /\ w'.dbfRecordLength = w.dbfRecordLength
          /\ dbf' = dbf]_vars

\* SetFields was refused on a Writer that Append returned.
C10_Witness ==
    /\ last.op = "SetFields"
    /\ last.res = "error"
    /\ w.dbf = "ro"
    /\ nApp = 1
    /\ Len(w.dbfFields) = 2

\* C5: while only Write and SetFields are called on a Writer whose DBF is
\* initialised, the .dbf holds one row of recordLength bytes per record
\* written so far.
C5_RowsMatchRecords ==
    (pc = "writer" /\ w.dbf # "nil" /\ attrLog = <<>>) =>
        Len(dbf) = w.dbfHeaderLength + Len(log) * w.dbfRecordLength

\* The rows of the attribute log that name cell (row, field).
WritesTo(row, field) ==
    {i \in 1..Len(attrLog) : attrLog[i].row = row /\ attrLog[i].field = field}

\* Every successful WriteAttribute call named a row that existed.
WritesInRange ==
    \A i \in 1..Len(attrLog) : attrLog[i].row < attrLog[i].num

\* The string a ReadAttribute call returned.
ReadBack == Tail(last.s)

\* C6: every row the Writer appends to the .dbf, in Write and in SetFields,
\* is recordLength bytes of spaces, and a cell of a row that no
\* WriteAttribute call touched reads back as the empty string.
C6_EmptyRowsReadEmpty ==
    /\ (pc = "writer" /\ last.op = "Write" /\ w.dbf = "rw") =>
          \A i \in (Len(dbf) - w.dbfRecordLength + 1)..Len(dbf) : dbf[i] = SP
    /\ (pc = "writer" /\ last.op = "SetFields" /\ last.res = "nil") =>
          \A i \in (w.dbfHeaderLength + 1)..Len(dbf) : dbf[i] = SP
    /\ (pc = "reader" /\ last.op = "ReadAttribute" /\ last.res = "nil"
          /\ last.n < Len(log) /\ WritesInRange
          /\ \A i \in 1..Len(attrLog) : attrLog[i].row # last.n) =>
          ReadBack = <<>>

\* C7: after Close, ReadAttribute returns for a cell the value most recently
\* written to it by a WriteAttribute call that returned nil.
C7_ReadsLastWritten ==
    (pc = "reader" /\ last.op = "ReadAttribute" /\ last.res = "nil"
       /\ WritesInRange /\ WritesTo(last.n, last.s[1]) # {}) =>
        LET i == CHOOSE j \in WritesTo(last.n, last.s[1]) :
                    \A k \in WritesTo(last.n, last.s[1]) : k <= j
        IN  ReadBack = attrLog[i].buf

\* C8: WriteAttribute on a Writer from Create, before any SetFields, returns
\* an error, for every row, field index and value of a supported type.
C8_ErrorBeforeSetFields ==
    (last.op = "WriteAttribute" /\ w.dbf = "nil" /\ nApp = 0) => last.res = "error"

\* C9: no WriteAttribute call for a row at or beyond the number of records
\* written so far returns nil.
C9_ErrorBeyondRows ==
    \A i \in 1..Len(attrLog) : ~(attrLog[i].row >= attrLog[i].num)

\* --------------------------------------------------------- round trip
\* A record of a shapefile on disk, as readShapeRecordHeader and the shape's
\* read parse it: number, content length in words, tag and payload.
OrigRecord(i, s) ==
    BE32(i) \o BE32((4 + Len(ShapeWrite(s))) \div 2) \o LE32(s.type) \o ShapeWrite(s)

RECURSIVE OrigRecords(_, _)
\* The first n records of the list recs, numbered from 1.
OrigRecords(recs, n) ==
    IF n = 0 THEN <<>> ELSE OrigRecords(recs, n - 1) \o OrigRecord(n, recs[n])

RECURSIVE OrigIndex(_, _)
\* The index entries of the first n records.
OrigIndex(recs, n) ==
    IF n = 0 THEN <<>>
    ELSE OrigIndex(recs, n - 1)
           \o BE32((shpHeaderLen + Len(OrigRecords(recs, n - 1))) \div 2)
           \o BE32((4 + Len(ShapeWrite(recs[n]))) \div 2)

\* The box in the header of a shapefile on disk: the union of the boxes of
\* its shapes that have one, a Null shape has none.
OrigBox(recs) ==
    LET B == {BBox(recs[i]) : i \in {j \in 1..Len(recs) : recs[j].type # NULL}}
    IN  IF B = {} THEN ZeroBox ELSE UnionBox(B)

\* The header fields of a shapefile on disk that headerBytes lays out.
OrigHeader(t, recs) == [GeometryType |-> t, bbox |-> OrigBox(recs)]

OrigShp(t, recs) ==
    headerBytes(OrigHeader(t, recs), shpHeaderLen + Len(OrigRecords(recs, Len(recs))))
      \o OrigRecords(recs, Len(recs))

OrigShx(t, recs) ==
    headerBytes(OrigHeader(t, recs), shpHeaderLen + 8 * Len(recs))
      \o OrigIndex(recs, Len(recs))

\* The attribute table of a shapefile on disk that declares no field: the
\* header and one live row, the deletion flag alone, per record.
OrigDbf(recs) ==
    dbfHeaderBytes([num |-> Len(recs), dbfFields |-> <<>>,
                    dbfHeaderLength |-> dbfHeaderLengthOf(<<>>),
                    dbfRecordLength |-> dbfRecordLengthOf(<<>>)])
      \o [i \in 1..Len(recs) |-> SP]

\* The lists of shapes of the shapefiles on disk.
OrigLists == UNION {[1..n -> Shapes] : n \in 0..MaxRecords}

\* A shapefile on disk, of either type and with any list of records.
InitRT ==
    \E t \in FileTypes, recs \in OrigLists :
        /\ pc = "closed"
        /\ shp = OrigShp(t, recs)
        /\ shx = OrigShx(t, recs)
        /\ dbf = OrigDbf(recs)
        /\ orig = [shp |-> OrigShp(t, recs), shx |-> OrigShx(t, recs),
                   dbf |-> OrigDbf(recs)]
        /\ w = NoWriter
        /\ r = NoReader
        /\ log = <<>>
        /\ attrLog = <<>>
        /\ yielded = <<>>
        /\ last = Result("none", "nil", 0, <<>>)
        /\ nApp = 0

\* The round trip: a strict Reader reads the shapefile to its end and is
\* closed; a Writer of the type the Reader found is created, every shape
\* yielded is written in order, and the Writer is closed.
NextRT ==
    \/ last.op = "none" /\ Open(".shp")
    \/ last.op \in {"Open", "Next"} /\ last.res # "false" /\ ReaderNext
    \/ last.op = "Next" /\ last.res = "false" /\ ReaderClose
    \/ last.op = "ReaderClose" /\ last.res = "nil" /\ Create(r.GeometryType)
    \/ Len(log) < Len(yielded) /\ Write(yielded[Len(log) + 1].shape)
    \/ Len(log) = Len(yielded) /\ Close

SpecRT == InitRT /\ [][NextRT]_vars

\* The rows of a .dbf file, the bytes after its header.
DbfRows(f) == SubSeq(f, DecLE16(ReadAt(f, dbfOffsetHeaderLen, 2)) + 1, Len(f))

\* C2: a shapefile that a strict Reader parses without error, rewritten by
\* a Writer of the file's type from the shapes the Reader yielded, gives
\* .shp and .shx files identical to the originals and the same rows in the
\* .dbf; every rewritten record has the shape type tag of the record it was
\* read from.
C2_RoundTripIdentical ==
    (pc = "closed" /\ last.op = "Close") =>
        /\ shp = orig.shp
        /\ shx = orig.shx
        /\ DbfRows(dbf) = DbfRows(orig.dbf)
        /\ \A i \in 1..Len(log) :
              ReadAt(shp, log[i].start, 4) = ReadAt(orig.shp, yielded[i].at + 8, 4)

\* ------------------------------------------------------- wide schemas
\* Field.Size is one byte: the largest size of a field.
MaxFieldSize == 255

\* A schema of n string fields of the largest size.
Wide(n) == [i \in 1..n |-> Field(<<Ch.a>>, Ch.C, MaxFieldSize, 0)]

\* The schemas given to SetFields: none, small ones and the widest.
WideSchemas == Schemas \cup {<<>>, <<Field(<<Ch.a>>, Ch.C, MaxFieldSize, 0)>>, Wide(MaxFields)}

\* A new shapefile with a schema of any width, or with none.
NextSchema ==
    \/ \E t \in FileTypes : pc = "init" /\ Create(t)
    \/ \E fields \in WideSchemas : SetFields(fields)
    \/ Write(PointShape(1, 1))
    \/ Close

SpecSchema == Init /\ [][NextSchema]_vars

\* C11: the DBF header written at Close carries the header length
\* 33 + 32 * fieldCount, the record length 1 + the sum of the field sizes,
\* both as they are and not wrapped around in 16 bits, and the number of
\* records written.
C11_DbfHeaderLengths ==
    (pc = "closed" /\ last.op = "Close") =>
        /\ DecLE16(ReadAt(dbf, dbfOffsetHeaderLen, 2))
              = dbfHeaderFieldsBase + dbfFieldDescriptorLen * Len(w.dbfFields)
        /\ DecLE16(ReadAt(dbf, dbfOffsetHeaderLen + 2, 2))
              = 1 + SumSizes(w.dbfFields, Len(w.dbfFields))
        /\ DecLE32(ReadAt(dbf, dbfOffsetNumRecords, 4)) = Len(log)

\* ------------------------------------------------------------- Append
\* The records that are the first one written through a Writer of Append.
FirstAppended ==
    {i \in 1..Len(log) : log[i].app > 0 /\ (i = 1 \/ log[i - 1].app < log[i].app)}

\* C12: the first Write after Append on a shapefile of N records, N = 0
\* included, writes record number N + 1 at the previous end of the .shp,
\* appends one .shx entry whose offset names that byte offset, and returns N.
C12_AppendContinues ==
    \A i \in FirstAppended :
        /\ DecBE32(ReadAt(shp, log[i].hdr, 4)) = i
        /\ log[i].ret = i - 1
        /\ log[i].hdr = IF i = 1 THEN shpHeaderLen ELSE log[i - 1].finish
        /\ log[i].shxAt = shpHeaderLen + 8 * (i - 1)
        /\ DecBE32(SubSeq(ShxEntry(i), 1, 4)) * 2 = log[i].hdr

\* C13: on a Writer that Append returned for a shapefile with a .dbf, every
\* Write appends one row of the existing record length to the .dbf, and
\* Close stores the increased number of records in the DBF header.
C13_AppendExtendsDbf ==
    /\ (pc = "writer" /\ nApp > 0 /\ last.op = "Write") =>
          Len(dbf) = log[Len(log)].dbfLen + log[Len(log)].recLen
    /\ (pc = "closed" /\ nApp > 0 /\ last.op = "Close") =>
          DecLE32(ReadAt(dbf, dbfOffsetNumRecords, 4)) = w.num

\* ----------------------------------------------------- open and close
\* A shapefile on disk, with its .dbf or without one.
InitOpen ==
    \E t \in FileTypes, recs \in OrigLists : \E d \in {OrigDbf(recs), <<>>} :
        /\ pc = "closed"
        /\ shp = OrigShp(t, recs)
        /\ shx = OrigShx(t, recs)
        /\ dbf = d
        /\ orig = [shp |-> OrigShp(t, recs), shx |-> OrigShx(t, recs), dbf |-> d]
        /\ w = NoWriter
        /\ r = NoReader
        /\ log = <<>>
        /\ attrLog = <<>>
        /\ yielded = <<>>
        /\ last = Result("none", "nil", 0, <<>>)
        /\ nApp = 0

\* The shapefile is opened once, by Open or by Append, and closed.
NextOpen ==
    \/ \E ext \in Exts : last.op = "none" /\ Open(ext)
    \/ ReaderClose
    \/ last.op = "none" /\ AppendOpen
    \/ Close

SpecOpen == InitOpen /\ [][NextOpen]_vars

\* C14: a shapefile opened by Open or by Append and closed at once has the
\* .shp, .shx and .dbf it had, and no file it did not have.
C14_OpenCloseFrame ==
    (pc = "closed" /\ last.op \in {"ReaderClose", "Close"}) =>
        /\ shp = orig.shp
        /\ shx = orig.shx
        /\ dbf = orig.dbf

\* ------------------------------------------------------ damaged files
\* The record lists of the .shp files that are then damaged.
BaseLists ==
    {<<>>, <<PointShape(1, 1)>>, <<NullShape, PointShape(1, 1)>>,
     <<PointShape(1, 1), PointShape(2, -1)>>}

\* The lengths a .shp file is cut to inside its header.
HeaderCuts == {0, 50, shpOffsetToGeomType + 36, shpHeaderLen - 1}

\* A .shp file f and what damage makes of it: another file code, another
\* version, a header that declares the length of the header alone or a
\* length that ends inside the first record, a cut inside the header or
\* inside a record, and a first record with a negative
\* content length, with none, with one beyond the file, or with a shape
\* type tag that newShape does not know, or with a content length of the
\* tag alone and the file cut behind the tag.
Damaged(f) ==
    {f,
     WriteAt(f, 0, BE32(shpFileCode + 1)),
     WriteAt(f, shpOffsetToVersion, LE32(shpVersion - 1)),
     WriteAt(f, shpOffsetToFileLength, BE32(shpHeaderLen \div 2))}
    \cup {SubSeq(f, 1, k) : k \in HeaderCuts}
    \cup {SubSeq(f, 1, k) : k \in (shpHeaderLen + 1)..(Len(f) - 1)}
    \cup (IF Len(f) < shpHeaderLen + 12 THEN {}
          ELSE {WriteAt(f, shpOffsetToFileLength, BE32((shpHeaderLen + 14) \div 2)),
                WriteAt(f, shpHeaderLen + 4, BE32(-1)),
                WriteAt(f, shpHeaderLen + 4, BE32(0)),
                WriteAt(f, shpHeaderLen + 4, BE32(Len(f))),
                WriteAt(f, shpHeaderLen + 8, LE32(2)),
                SubSeq(WriteAt(f, shpHeaderLen + 4, BE32(2)), 1, shpHeaderLen + 12)})

\* The .shp files given to the Reader.
DamagedFiles == UNION {Damaged(OrigShp(POINT, recs)) : recs \in BaseLists}

\* A .shp file on disk, sound or damaged.
InitFiles ==
    \E f \in DamagedFiles :
        /\ pc = "closed"
        /\ shp = f
        /\ shx = <<>>
        /\ dbf = <<>>
        /\ orig = [shp |-> f, shx |-> <<>>, dbf |-> <<>>]
        /\ w = NoWriter
        /\ r = NoReader
        /\ log = <<>>
        /\ attrLog = <<>>
        /\ yielded = <<>>
        /\ last = Result("none", "nil", 0, <<>>)
        /\ nApp = 0

\* A strict Reader on the file: opened once, Next called any number of
\* times, closed.
NextFiles ==
    \/ \E ext \in Exts : last.op = "none" /\ Open(ext)
    \/ ReaderNext
    \/ ReaderClose

SpecFiles == InitFiles /\ [][NextFiles]_vars

\* C15: a Reader is returned only for a .shp file whose header is there in
\* full, starts with the file code 9994 and holds the version 1000.
C15_OpenValidatesHeader ==
    (pc = "reader") =>
        /\ Len(shp) >= shpHeaderLen
        /\ DecBE32(ReadAt(shp, 0, 4)) = shpFileCode
        /\ DecLE32(ReadAt(shp, shpOffsetToVersion, 4)) = shpVersion

\* The file length that the header of a .shp file declares, in bytes.
DeclaredLength(f) == DecBE32(ReadAt(f, shpOffsetToFileLength, 4)) * 2

\* C16: no record that Next yields starts at or beyond the smaller of the
\* length the header declares and the size of the .shp file.
C16_BoundIsSmallerLength ==
    (pc = "reader") =>
        \A k \in 1..Len(yielded) :
            yielded[k].at < Min(DeclaredLength(shp), Len(shp))

\* The record at the Reader's position, before the bound, has a complete
\* header and is one a strict Next must refuse: its content length is
\* negative, it ends beyond the bound, its tag is not one of the fourteen
\* known, or the file ends before the payload its shape reads.
BadRecord(rd, f, bound) ==
    LET h == readShapeRecordHeader(f, rd.pos)
    IN  /\ rd.pos < bound
        /\ h.err = "nil"
        /\ \/ h.size < 0
           \/ rd.pos + 8 + 2 * h.size > bound
           \/ h.shapetype \notin KnownTypes
           \/ Len(f) - (rd.pos + 12) < ShapeReadLen(h.shapetype)

\* C17: in strict mode a Next call on such a record, the bound being the
\* smaller of the length the header declares and the size of the file,
\* returns false, leaves Err() non-nil and yields no shape.
C17_StrictRefusesBadRecord ==
    [][(pc = "reader" /\ last'.op = "Next"
          /\ BadRecord(r, shp, Min(DeclaredLength(shp), Len(shp)))) =>
          /\ last'.res = "false"
          /\ Err(r') # "nil"
          /\ yielded' = yielded]_vars

\* The same with the bound that readHeaders stores, the size of the file.
StrictRefusesByFileSize ==
    [][(pc = "reader" /\ last'.op = "Next" /\ BadRecord(r, shp, r.filelength)) =>
          /\ last'.res = "false"
          /\ Err(r') # "nil"
          /\ yielded' = yielded]_vars

\* The record at the Reader's position is tagged Point and declares a
\* content length, not negative, smaller than the tag and the two
\* coordinates need.
ShortPoint(rd, f) ==
    LET h == readShapeRecordHeader(f, rd.pos)
    IN  /\ rd.pos < rd.filelength
        /\ h.err = "nil"
        /\ h.shapetype = POINT
        /\ h.size >= 0
        /\ 2 * h.size < 4 + ShapeReadLen(POINT)

\* C18: in strict mode a Next call on a Point record whose declared content
\* length is smaller than a Point needs returns false, leaves Err() non-nil
\* and yields no Point.
C18_StrictRefusesShortPoint ==
    [][(pc = "reader" /\ last'.op = "Next" /\ ShortPoint(r, shp)) =>
          /\ last'.res = "false"
          /\ Err(r') # "nil"
          /\ yielded' = yielded]_vars

\* C19: in strict mode, with no error so far, a Next call that finds 1 to
\* 11 bytes left at the Reader's position returns false and leaves Err()
\* non-nil; one that finds the file ended there returns false and leaves
\* Err() nil.
C19_PartialHeaderIsError ==
    [][(pc = "reader" /\ last'.op = "Next" /\ r.err = "nil") =>
          /\ (Len(shp) - r.pos \in 1..11) => (last'.res = "false" /\ Err(r') # "nil")
          /\ (Len(shp) - r.pos = 0) => (last'.res = "false" /\ Err(r') = "nil")]_vars

\* C20: in strict mode, after a Next call has returned false with Err()
\* non-nil, the next Next call returns false, yields no shape and leaves
\* Err() non-nil; so does every later one.
C20_ErrorIsSticky ==
    [][(pc = "reader" /\ last.op = "Next" /\ last.res = "false" /\ Err(r) # "nil"
          /\ last'.op = "Next") =>
          /\ last'.res = "false"
          /\ yielded' = yielded
          /\ Err(r') # "nil"]_vars

\* -------------------------------------------------------- resync mode
\* The record lists of the .shp files given to a Reader that ignores
\* corrupted shapes.
ResyncLists == BaseLists \cup {<<PointShape(0, 0)>>, <<PointShape(1, 1), PointShape(0, 2)>>}

\* The .shp files given to that Reader, sound or damaged.
ResyncFiles == UNION {Damaged(OrigShp(POINT, recs)) : recs \in ResyncLists}

InitResync ==
    \E f \in ResyncFiles :
        /\ pc = "closed"
        /\ shp = f
        /\ shx = <<>>
        /\ dbf = <<>>
        /\ orig = [shp |-> f, shx |-> <<>>, dbf |-> <<>>]
        /\ w = NoWriter
        /\ r = NoReader
        /\ log = <<>>
        /\ attrLog = <<>>
        /\ yielded = <<>>
        /\ last = Result("none", "nil", 0, <<>>)
        /\ nApp = 0

\* One OpenWithConfig with IgnoreCorruptedShapes, then Next and Close.
NextResyncMode ==
    \/ \E ext \in Exts : last.op = "none" /\ OpenWithConfig(ext, TRUE)
    \/ ReaderNext
    \/ ReaderClose

SpecResync == InitResync /\ [][NextResyncMode]_vars

\* The iteration bound: the smaller of the length the header declares and
\* the size of the file.
IterationBound(f) == Min(DeclaredLength(f), Len(f))

\* The record at offset pos of f, before the bound, has a complete header,
\* a content length that keeps it within the bound and a shape type tag
\* that is not one of the fourteen known.
UnknownTagAt(f, pos, bound) ==
    LET h == readShapeRecordHeader(f, pos)
    IN  /\ pos < bound
        /\ h.err = "nil"
        /\ h.size >= 0
        /\ pos + 8 + 2 * h.size <= bound
        /\ h.shapetype \notin KnownTypes

\* The record at offset pos of f is a whole Null or Point record within the
\* bound.
SoundAt(f, pos, bound) ==
    LET h == readShapeRecordHeader(f, pos)
    IN  /\ pos < bound
        /\ h.err = "nil"
        /\ h.shapetype \in ModelledTypes
        /\ 2 * h.size = 4 + ShapeReadLen(h.shapetype)
        /\ pos + 8 + 2 * h.size <= bound

\* C21: with IgnoreCorruptedShapes, a Next call at a record with an unknown
\* shape type tag and an extent within the bound, followed by a sound
\* record, returns true, yields that following record with its own number,
\* and leaves Err() nil.
C21_ResyncSkipsUnknownTag ==
    [][(/\ pc = "reader"
        /\ r.IgnoreCorruptedShapes
        /\ last'.op = "Next"
        /\ UnknownTagAt(shp, r.pos, IterationBound(shp))
        /\ SoundAt(shp, r.pos + 8 + 2 * readShapeRecordHeader(shp, r.pos).size,
                   IterationBound(shp))) =>
          LET follows == r.pos + 8 + 2 * readShapeRecordHeader(shp, r.pos).size
              h       == readShapeRecordHeader(shp, follows)
          IN  /\ last'.res = "true"
              /\ Len(yielded') = Len(yielded) + 1
              /\ yielded'[Len(yielded')].at = follows
              /\ yielded'[Len(yielded')].num = h.num
              /\ yielded'[Len(yielded')].shape =
                    ShapeRead(h.shapetype, ReadAt(shp, follows + 12, ShapeReadLen(h.shapetype)))
              /\ Err(r') = "nil"]_vars

\* A resync Next has skipped a first record with an unknown tag and yielded
\* the Point that follows it as record 2.
C21_Witness ==
    /\ pc = "reader"
    /\ r.IgnoreCorruptedShapes
    /\ last.op = "Next"
    /\ last.res = "true"
    /\ DecLE32(ReadAt(shp, shpHeaderLen + 8, 4)) \notin KnownTypes
    /\ Len(yielded) = 1
    /\ yielded[1].at > shpHeaderLen
    /\ yielded[1].num = 2
    /\ yielded[1].shape = PointShape(1, 1)
    /\ Err(r) = "nil"

RECURSIVE WholeFrom(_, _)
\* The offsets of the whole Null and Point records that stand one behind
\* the other in f from offset pos on.
WholeFrom(f, pos) ==
    IF SoundAt(f, pos, Len(f))
    THEN <<pos>> \o WholeFrom(f, pos + 8 + 2 * readShapeRecordHeader(f, pos).size)
    ELSE <<>>

\* The offset behind the last of those records.
WholeEnd(f) ==
    LET ws == WholeFrom(f, shpHeaderLen)
    IN  IF ws = <<>> THEN shpHeaderLen
        ELSE ws[Len(ws)] + 8 + 2 * readShapeRecordHeader(f, ws[Len(ws)]).size

\* f is a file of whole records cut inside the payload of one more Null or
\* Point record: more than the 8 bytes before its payload are left of it,
\* and less than the record.
TruncatedInPayload(f) ==
    LET p == WholeEnd(f)
        h == readShapeRecordHeader(f, p)
    IN  /\ Len(f) >= shpHeaderLen
        /\ Len(f) - p > 8
        /\ h.err = "nil" =>
              /\ h.shapetype \in ModelledTypes
              /\ 2 * h.size = 4 + ShapeReadLen(h.shapetype)
              /\ p + 8 + 2 * h.size > Len(f)

\* C22: with IgnoreCorruptedShapes, on a file cut inside the payload of
\* record k+1 the shapes yielded so far are the first of the records 1..k,
\* in order and at their offsets, and once Next has returned false all k
\* have been yielded and Err() is nil.
C22_TruncatedYieldsPrefix ==
    (pc = "reader" /\ r.IgnoreCorruptedShapes /\ TruncatedInPayload(shp)) =>
        LET ws == WholeFrom(shp, shpHeaderLen)
        IN  /\ Len(yielded) <= Len(ws)
            /\ \A i \in 1..Len(yielded) :
                  /\ yielded[i].at = ws[i]
                  /\ yielded[i].num = readShapeRecordHeader(shp, ws[i]).num
            /\ (last.op = "Next" /\ last.res = "false") =>
                  (Len(yielded) = Len(ws) /\ Err(r) = "nil")

\* ------------------------------------------- attributes of a Reader
\* The two records of the shapefile whose attributes are read.
AttrRecs == <<PointShape(1, 1), PointShape(2, -1)>>

\* Its attribute table: one string field, and the rows "a" and "bb".
AttrDbf ==
    dbfHeaderBytes([num |-> Len(AttrRecs), dbfFields |-> <<FieldC>>,
                    dbfHeaderLength |-> dbfHeaderLengthOf(<<FieldC>>),
                    dbfRecordLength |-> dbfRecordLengthOf(<<FieldC>>)])
      \o <<SP, Ch.a, SP>> \o <<SP, Ch.b, Ch.b>>

\* The .dbf files beside the .shp: none, the table, the table cut after its
\* first row, and the table with an empty second cell.
AttrDbfs ==
    {<<>>, AttrDbf, SubSeq(AttrDbf, 1, Len(AttrDbf) - 3),
     WriteAt(AttrDbf, Len(AttrDbf) - 2, <<SP, SP>>)}

\* The .shp files: sound, and with a first record of an unknown type.
AttrShps ==
    {OrigShp(POINT, AttrRecs), WriteAt(OrigShp(POINT, AttrRecs), shpHeaderLen + 8, LE32(2))}

InitAttr ==
    \E f \in AttrShps, d \in AttrDbfs :
        /\ pc = "closed"
        /\ shp = f
        /\ shx = OrigShx(POINT, AttrRecs)
        /\ dbf = d
        /\ orig = [shp |-> f, shx |-> OrigShx(POINT, AttrRecs), dbf |-> d]
        /\ w = NoWriter
        /\ r = NoReader
        /\ log = <<>>
        /\ attrLog = <<>>
        /\ yielded = <<>>
        /\ last = Result("none", "nil", 0, <<>>)
        /\ nApp = 0

\* A Reader of either mode, opened once: Next, ReadAttribute and Close in
\* every order.
NextAttr ==
    \/ \E ignore \in BOOLEAN : last.op = "none" /\ OpenWithConfig(".shp", ignore)
    \/ ReaderNext
    \/ \E row \in Rows, field \in FieldIndexes : ReadAttribute(row, field)
    \/ ReaderClose

SpecAttr == InitAttr /\ [][NextAttr]_vars

\* The cell (row, field) of the table d cannot be read: there is no .dbf, or
\* the field is one of the table's and the file ends before the cell does.
CellUnreadable(d, row, field) ==
    \/ dbfNotExist(d)
    \/ LET rd == openDbf(NoReader, d)
       IN  /\ field >= 0
           /\ field < Len(rd.dbfFields)
           /\ dbfFieldOffset(rd.dbfHeaderLength, rd.dbfRecordLength, row,
                             rd.dbfFields, field) + rd.dbfFields[field + 1].Size > Len(d)

\* C23: a ReadAttribute call on a cell that cannot be read returns the
\* empty string and leaves the Reader where it was, so that Next goes on
\* with the next record.
C23_UnreadableCellIsEmpty ==
    [][(/\ pc = "reader"
        /\ last'.op = "ReadAttribute"
        /\ last'.s # <<>>
        /\ CellUnreadable(dbf, last'.n, last'.s[1])) =>
          /\ last'.res = "nil"
          /\ Len(last'.s) = 1
          /\ pc' = "reader"
          /\ NextOf(r', shp).ok = NextOf(r, shp).ok
          /\ NextOf(r', shp).r.pos = NextOf(r, shp).r.pos]_vars

\* C24: while the Reader is in use its .shp handle is open and an opened
\* .dbf handle stays open; Close leaves the .shp handle closed, and the
\* .dbf handle if it was opened, in whatever state the Reader is.
C24_CloseReleasesHandles ==
    [][/\ (pc = "reader" /\ pc' = "reader") =>
             (r'.shp = "open" /\ (r.dbf = "ro" => r'.dbf = "ro"))
       /\ (pc = "reader" /\ last'.op = "ReaderClose") =>
             (r'.shp = "closed" /\ (r.dbf = "ro" => r'.dbf = "closed"))]_vars

\* ------------------------------------------------------------ GeoJSON
\* A point of a point list.
Pt(x, y) == [X |-> x, Y |-> y]

\* BBoxFromPoints: the box around a list of points.
BBoxFromPoints(ps) ==
    IF ps = <<>> THEN ZeroBox
    ELSE LET xs == {ps[i].X : i \in 1..Len(ps)}
             ys == {ps[i].Y : i \in 1..Len(ps)}
         IN  Box(CHOOSE a \in xs : \A b \in xs : a <= b,
                 CHOOSE a \in ys : \A b \in ys : a <= b,
                 CHOOSE a \in xs : \A b \in xs : a >= b,
                 CHOOSE a \in ys : \A b \in ys : a >= b)

RECURSIVE Flatten(_)
\* The points of a list of lines, one line behind the other.
Flatten(lines) == IF lines = <<>> THEN <<>> ELSE lines[1] \o Flatten(Tail(lines))

\* NewPolyLine: the points of the lines in order, and for each line the
\* index of its first point.
NewPolyLine(lines) ==
    [type |-> POLYLINE,
     Box |-> BBoxFromPoints(Flatten(lines)),
     Parts |-> [i \in 1..Len(lines) |-> Len(Flatten(SubSeq(lines, 1, i - 1)))],
     Points |-> Flatten(lines)]

\* A Geometry: its type, its coordinates, and the dynamic type of the
\* coordinate slices: "interface" for the []interface{} of json.Unmarshal,
\* "float64" for the []float64 and [][]float64 that ShapeToGeoJSON builds.
Geometry(t, coords, dyn) == [Type |-> t, Coordinates |-> coords, dyn |-> dyn]

\* The result of a conversion that failed.
GeoError == [Type |-> "error", Coordinates |-> <<>>, dyn |-> "none"]

\* pointsToCoordinates without a Z array: {p.X, p.Y} for each point.
pointsToCoordinates(points) == [i \in 1..Len(points) |-> <<points[i].X, points[i].Y>>]

\* An end of a line that is the end of the point list for every part.
endIdxIsLen(parts, i, n) == n

\* polyLineToGeoJSON: the end of part i (counted from 0): the start of the
\* next part, or len(points) for the last.
endIdx(parts, i, n) == IF i + 1 < Len(parts) THEN parts[i + 2] ELSE n

\* points[part:endIdx] panics unless 0 <= part <= endIdx <= len(points).
sliceOk(from, to, n) == 0 <= from /\ from <= to /\ to <= n

\* polyLineToGeoJSON without Z or M arrays.
polyLineToGeoJSON(parts, points) ==
    IF Len(parts) = 0 THEN GeoError
    ELSE IF Len(parts) = 1
    THEN Geometry("LineString", pointsToCoordinates(points), "float64")
    ELSE IF \E i \in 0..(Len(parts) - 1) :
               ~sliceOk(parts[i + 1], endIdx(parts, i, Len(points)), Len(points))
    THEN [GeoError EXCEPT !.Type = "panic"]
    ELSE Geometry("MultiLineString",
                  [i \in 1..Len(parts) |->
                      pointsToCoordinates(SubSeq(points, parts[i] + 1,
                                                 endIdx(parts, i - 1, Len(points))))],
                  "float64")

\* The largest number of points and of parts of the polylines converted.
MaxPoints == 3
MaxParts == 3

\* The points of those polylines.
GeoPoints == {Pt(0, 0), Pt(1, 1), Pt(2, -1)}

\* polyLineToGeoJSON, once, on any list of points and any list of parts
\* that index it.
PolyLineStep ==
    /\ pc = "init"
    /\ last.op = "none"
    /\ \E n \in 0..MaxPoints, k \in 0..MaxParts :
         \E points \in [1..n -> GeoPoints], parts \in [1..k -> 0..n] :
            last' = [op |-> "polyLineToGeoJSON", res |-> polyLineToGeoJSON(parts, points),
                     n |-> parts, s |-> points]
    /\ UNCHANGED <<pc, shp, shx, dbf, w, r, log, attrLog, yielded, nApp, orig>>

NextPoly == PolyLineStep

SpecPoly == Init /\ [][NextPoly]_vars

\* The parts of a polyline of n points: the first is 0, none is before the
\* one it follows, none is beyond n.
PartsOk(parts, n) ==
    /\ Len(parts) > 0 => parts[1] = 0
    /\ \A i \in 1..Len(parts) : parts[i] <= n
    /\ \A i \in 1..(Len(parts) - 1) : parts[i] <= parts[i + 1]

NoShape == [type |-> 0 - 1]

\* determineShapeType: the shape type of the file, -1 for an error.
determineShapeType(geom) ==
    CASE geom.Type = "Point" -> POINT
      [] geom.Type = "MultiPoint" -> MULTIPOINT
      [] geom.Type \in {"LineString", "MultiLineString"} -> POLYLINE
      [] geom.Type \in {"Polygon", "MultiPolygon"} -> POLYGON
      [] OTHER -> 0 - 1

\* coordinatesToPoints: a point for each coordinate pair.
coordinatesToPoints(coords) == [i \in 1..Len(coords) |-> Pt(coords[i][1], coords[i][2])]

\* GeoJSONToShape: the shape of a geometry; the shape type it is given is
\* not used.  Every case begins with the type assertion
\* Coordinates.([]interface{}), which fails on the slices of float64 that
\* ShapeToGeoJSON builds (at the inner level for two levels of slices).
GeoJSONToShape(geom, shapeType) ==
    IF geom.Type \notin {"Point", "MultiPoint", "LineString", "MultiLineString", "Polygon"}
    THEN NoShape
    ELSE IF geom.dyn # "interface" THEN NoShape
    ELSE CASE geom.Type = "Point" ->
                IF Len(geom.Coordinates) < 2 THEN NoShape
                ELSE PointShape(geom.Coordinates[1], geom.Coordinates[2])
           [] geom.Type = "MultiPoint" ->
                [type |-> MULTIPOINT,
                 Box |-> BBoxFromPoints(coordinatesToPoints(geom.Coordinates)),
                 Points |-> coordinatesToPoints(geom.Coordinates)]
           [] geom.Type = "LineString" ->
                NewPolyLine(<<coordinatesToPoints(geom.Coordinates)>>)
           [] geom.Type = "MultiLineString" ->
                NewPolyLine([i \in 1..Len(geom.Coordinates) |->
                                coordinatesToPoints(geom.Coordinates[i])])
           [] geom.Type = "Polygon" ->
                [NewPolyLine([i \in 1..Len(geom.Coordinates) |->
                                 coordinatesToPoints(geom.Coordinates[i])])
                    EXCEPT !.type = POLYGON]

\* StringField, NumberField and FloatField.
StringField(name, length) == Field(name, Ch.C, length, 0)
NumberField(name, length) == Field(name, Ch.N, length, 0)
FloatField(name, length, precision) == Field(name, Ch.F, length, precision)

RECURSIVE UpToNul(_)
\* Field.String(): the name up to its first NUL byte.
UpToNul(bs) == IF bs = <<>> \/ bs[1] = 0 THEN <<>> ELSE <<bs[1]>> \o UpToNul(Tail(bs))
FieldString(f) == UpToNul(f.Name)

\* createFieldsFromProperties: name = name[:10] for a longer name.
fieldName(name) == IF Len(name) > 10 THEN SubSeq(name, 1, 10) ELSE name

\* createFieldsFromProperties: one field per property, of the type and the
\* size that the property's value gives (the maps here hold one property at
\* most, so that the order of the map's iteration does not matter).
fieldOf(name, value) ==
    CASE value.kind = "string" ->
            StringField(fieldName(name), IF Len(value.s) > 254 THEN 254 ELSE Len(value.s))
      [] value.kind = "int" -> NumberField(fieldName(name), 10)
      [] value.kind = "float64" -> FloatField(fieldName(name), 15, 6)
      [] value.kind = "bool" -> StringField(fieldName(name), 1)
      [] OTHER -> StringField(fieldName(name), 50)

createFieldsFromProperties(properties) ==
    IF DOMAIN properties = {} THEN <<>>
    ELSE LET name == CHOOSE n \in DOMAIN properties : TRUE
         IN  <<fieldOf(name, properties[name])>>

\* A Feature and a FeatureCollection.
Feature(geometry, properties) == [Geometry |-> geometry, Properties |-> properties]
FeatureCollection(features) == [Type |-> "FeatureCollection", Features |-> features]

\* ShapeToGeoJSON of the shapes a Reader yields here: a Point gives its
\* coordinates as a []float64, a Null shape is not supported.
ShapeToGeoJSON(shape) ==
    IF shape.type = POINT
    THEN Geometry("Point", <<shape.X, shape.Y>>, "float64")
    ELSE IF shape.type = POLYLINE THEN polyLineToGeoJSON(shape.Parts, shape.Points)
    ELSE GeoError

\* The value of a property that is JSON null.
NilValue == [kind |-> "nil", n |-> 0, s |-> <<>>]

RECURSIVE ParseDigits(_)
\* strconv.ParseInt on a string of decimal digits.
ParseDigits(bs) ==
    IF bs = <<>> THEN 0 ELSE 10 * ParseDigits(SubSeq(bs, 1, Len(bs) - 1)) + (bs[Len(bs)] - Ch.zero)

IsDigits(bs) == bs # <<>> /\ \A i \in 1..Len(bs) : bs[i] \in Ch.zero..(Ch.zero + 9)

\* ShapefileToGeoJSON: the property of a cell.  An empty cell is nil, a
\* decimal integer an int64, any other cell of the letters and NUL bytes
\* that the tables here hold is neither a float nor a boolean and stays a
\* string.
attrValue(cell) ==
    IF cell = <<>> THEN NilValue
    ELSE IF IsDigits(cell) THEN IntValue(ParseDigits(cell))
    ELSE IF cell[1] = Ch.minus /\ IsDigits(Tail(cell)) THEN IntValue(0 - ParseDigits(Tail(cell)))
    ELSE StringValue(cell)

RECURSIVE readAll(_, _)
\* for reader.Next() { ... }: the Readers after each Next that returned
\* true, and last the Reader after the Next that returned false.
readAll(rd, f) ==
    LET n == NextStrict(rd, f)
    IN  IF n.ok THEN <<n.r>> \o readAll(n.r, f) ELSE <<n.r>>

\* ShapefileToGeoJSON, the properties of row n: one per field name.
rowProperties(rd, d, n) ==
    [name \in {FieldString(rd.dbfFields[j]) : j \in 1..Len(rd.dbfFields)} |->
        LET j == CHOOSE j \in 1..Len(rd.dbfFields) :
                    /\ FieldString(rd.dbfFields[j]) = name
                    /\ \A k \in (j + 1)..Len(rd.dbfFields) :
                          FieldString(rd.dbfFields[k]) # name
        IN  attrValue(readCell(rd, d, n, j - 1))]

\* ShapefileToGeoJSON on the files f and d: a feature for every record read
\* whose shape ShapeToGeoJSON converts; an error if Open fails or the
\* Reader ends with an error.
ShapefileToGeoJSON(f, d) ==
    IF ~readShpHeaderSeekerOk(f) THEN [Type |-> "error", Features |-> <<>>]
    ELSE LET rd    == openDbf(newReader(f, FALSE), d)
             all   == readAll(rd, f)
             reads == SubSeq(all, 1, Len(all) - 1)
             conv  == SelectSeq(reads, LAMBDA x : ShapeToGeoJSON(x.shape).Type # "error")
         IN  IF Err(all[Len(all)]) # "nil" THEN [Type |-> "error", Features |-> <<>>]
             ELSE FeatureCollection(
                     [i \in 1..Len(conv) |->
                         Feature(ShapeToGeoJSON(conv[i].shape),
                                 rowProperties(rd, d, ShapeIndex(conv[i])))])

\* json.Marshal and json.Unmarshal of a FeatureCollection: the coordinates
\* come back as []interface{}.
Unmarshalled(fc) ==
    [fc EXCEPT !.Features =
        [i \in 1..Len(fc.Features) |->
            [fc.Features[i] EXCEPT !.Geometry.dyn = "interface"]]]

\* The names of the properties: one that fits a field name, and one of
\* eleven characters.
ShortName == <<Ch.a, Ch.b>>
LongName == [i \in 1..11 |-> IF i = 11 THEN Ch.b ELSE Ch.a]

\* The property maps and the geometries of the features given.
GeoProperties ==
    {<<>>} \cup {[n \in {name} |-> v] :
                    name \in {ShortName, LongName},
                    v \in {StringValue(<<Ch.b>>), IntValue(7)}}

GeoGeometries ==
    {Geometry("Point", <<1, 1>>, "interface"),
     Geometry("Point", <<2, 0 - 1>>, "interface"),
     Geometry("LineString", <<<<0, 0>>, <<1, 1>>>>, "interface"),
     Geometry("GeometryCollection", <<>>, "interface")}

GeoFeatures == {Feature(g, ps) : g \in GeoGeometries, ps \in GeoProperties}

\* The FeatureCollections given to GeoJSONToShapefile: those of one and of
\* two features, built by hand or unmarshalled.
GeoInputs ==
    {FeatureCollection(fs) : fs \in UNION {[1..n -> GeoFeatures] : n \in 1..MaxRecords}}

\* The shapefiles on disk that are converted to GeoJSON and back.
GeoShapefiles ==
    {[shp |-> OrigShp(POINT, recs), shx |-> OrigShx(POINT, recs), dbf |-> OrigDbf(recs)] :
        recs \in OrigLists}
      \cup {[shp |-> OrigShp(POINT, AttrRecs), shx |-> OrigShx(POINT, AttrRecs),
             dbf |-> AttrDbf]}

\* GeoJSONToShapefile is about to be called: on a FeatureCollection given
\* as it is, with no file on disk, or on the one that ShapefileToGeoJSON
\* returns for a shapefile on disk, as it is or unmarshalled; orig.geo is
\* the FeatureCollection and orig.from says which of the three it is.
InitGeo ==
    /\ \/ \E fc \in GeoInputs :
             /\ orig = [shp |-> <<>>, shx |-> <<>>, dbf |-> <<>>, geo |-> fc, from |-> "given"]
             /\ shp = <<>> /\ shx = <<>> /\ dbf = <<>>
       \/ \E files \in GeoShapefiles, from \in {"ShapefileToGeoJSON", "Unmarshalled"} :
             /\ orig = [shp |-> files.shp, shx |-> files.shx, dbf |-> files.dbf,
                        geo |-> IF from = "Unmarshalled"
                                THEN Unmarshalled(ShapefileToGeoJSON(files.shp, files.dbf))
                                ELSE ShapefileToGeoJSON(files.shp, files.dbf),
                        from |-> from]
             /\ shp = files.shp /\ shx = files.shx /\ dbf = files.dbf
    /\ pc = "init"
    /\ w = NoWriter
    /\ r = NoReader
    /\ log = <<>>
    /\ attrLog = <<>>
    /\ yielded = <<>>
    /\ last = Result("none", "nil", 0, <<>>)
    /\ nApp = 0

\* GeoJSONToShapefile: the shape type of the file, from the first feature.
GeoShapeType(fc) == determineShapeType(fc.Features[1].Geometry)

\* GeoJSONToShapefile: the fields, from the first feature's properties.
GeoFields(fc) == createFieldsFromProperties(fc.Features[1].Properties)

\* GeoJSONToShapefile: the features that are not skipped, in order.
GeoWritten(fc) ==
    SelectSeq(fc.Features,
              LAMBDA x : GeoJSONToShape(x.Geometry, GeoShapeType(fc)).type >= 0)

\* GeoJSONToShapefile: the feature written last has a property under the
\* name of the field, which WriteAttribute is to write.
GeoAttrPending(fc) ==
    /\ last.op = "Write"
    /\ GeoFields(fc) # <<>>
    /\ FieldString(GeoFields(fc)[1]) \in DOMAIN GeoWritten(fc)[Len(log)].Properties

\* GeoJSONToShapefile goes on with the next feature, or ends.
GeoNextFeature(fc) ==
    /\ pc = "writer"
    /\ \/ last.op = "SetFields" /\ last.res = "nil"
       \/ last.op = "Write" /\ ~GeoAttrPending(fc)
       \/ last.op = "WriteAttribute"

\* GeoJSONToShapefile, in the steps it takes: Create, SetFields, then for
\* each feature that GeoJSONToShape converts Write and WriteAttribute, and
\* the deferred Close.
GeoCreate ==
    /\ pc = "init"
    /\ orig.geo.Type = "FeatureCollection"
    /\ Len(orig.geo.Features) > 0
    /\ GeoShapeType(orig.geo) >= 0
    /\ Create(GeoShapeType(orig.geo))

GeoSetFields == pc = "writer" /\ last.op = "Create" /\ SetFields(GeoFields(orig.geo))

GeoWrite ==
    /\ GeoNextFeature(orig.geo)
    /\ Len(log) < Len(GeoWritten(orig.geo))
    /\ Write(GeoJSONToShape(GeoWritten(orig.geo)[Len(log) + 1].Geometry,
                            GeoShapeType(orig.geo)))

GeoWriteAttribute ==
    /\ pc = "writer"
    /\ GeoAttrPending(orig.geo)
    /\ WriteAttribute(last.n, 0,
                      GeoWritten(orig.geo)[Len(log)].Properties[
                          FieldString(GeoFields(orig.geo)[1])])

GeoClose ==
    /\ \/ GeoNextFeature(orig.geo) /\ Len(log) = Len(GeoWritten(orig.geo))
       \/ pc = "writer" /\ last.op = "SetFields" /\ last.res = "error"
    /\ Close

NextGeo == GeoCreate \/ GeoSetFields \/ GeoWrite \/ GeoWriteAttribute \/ GeoClose

SpecGeo == InitGeo /\ [][NextGeo]_vars

\* GeoJSONToShapefile has returned.
GeoDone == pc = "closed" /\ last.op = "Close"

\* The feature's geometry maps to the shape type of the file and can be
\* translated.
GeoFits(fc, x) ==
    /\ determineShapeType(x.Geometry) = GeoShapeType(fc)
    /\ GeoJSONToShape(x.Geometry, GeoShapeType(fc)).type >= 0

\* C26: when GeoJSONToShapefile has returned, every record written holds a
\* shape of the file's shape type, and there are as many records as
\* features whose geometry fits that type.
C26_OnlyFittingWritten ==
    (GeoDone /\ orig.from = "given") =>
        /\ \A i \in 1..Len(log) : log[i].shape.type = w.GeometryType
        /\ Len(log) = Len(SelectSeq(orig.geo.Features, LAMBDA x : GeoFits(orig.geo, x)))
        /\ DecBE32(ReadAt(shx, shpOffsetToFileLength, 4)) * 2 = shpHeaderLen + 8 * Len(log)

\* C27: when GeoJSONToShapefile has returned, a string property of the
\* first feature whose name is longer than 10 characters has a field named
\* by the first 10, and the cell of that field in the row of every feature
\* written that has the property reads back as the feature's value.
C27_TruncatedNameKeepsValue ==
    (GeoDone /\ orig.from = "given") =>
        LET fc == orig.geo
            rd == openDbf(NoReader, dbf)
        IN  \A name \in DOMAIN fc.Features[1].Properties :
               (Len(name) > 10 /\ fc.Features[1].Properties[name].kind = "string") =>
                  /\ Len(rd.dbfFields) = 1
                  /\ FieldString(rd.dbfFields[1]) = SubSeq(name, 1, 10)
                  /\ \A k \in 1..Len(log) :
                        LET x == GeoWritten(fc)[k]
                        IN  (name \in DOMAIN x.Properties /\ x.Properties[name].kind = "string") =>
                               readCell(rd, dbf, k - 1, 0) = x.Properties[name].s

\* The geometries of a FeatureCollection: their types and coordinates.
GeoShapes(fc) ==
    [i \in 1..Len(fc.Features) |->
        <<fc.Features[i].Geometry.Type, fc.Features[i].Geometry.Coordinates>>]

\* C28: a FeatureCollection that ShapefileToGeoJSON returned, given to
\* GeoJSONToShapefile as it is, makes a shapefile for which
\* ShapefileToGeoJSON returns as many features, of the same geometry types
\* and the same coordinates in the same order.
C28_GeoJSONRoundTrip ==
    (GeoDone /\ orig.from = "ShapefileToGeoJSON") =>
        GeoShapes(ShapefileToGeoJSON(shp, dbf)) = GeoShapes(orig.geo)

\* ------------------------------------------------------------ errReader, errWriter
\* The stream under an errReader: Read(p) on a stream that has no byte left
\* returns (0, io.EOF); otherwise it returns at most chunk bytes and no
\* error (a Read may return fewer bytes than asked).
streamRead(data, rdr, k) ==
    IF rdr.pos >= Len(data)
    THEN [Reader |-> rdr, n |-> 0, err |-> "EOF", bs |-> <<>>]
    ELSE LET n == Min(Min(k, rdr.chunk), Len(data) - rdr.pos)
         IN  [Reader |-> [rdr EXCEPT !.pos = rdr.pos + n], n |-> n, err |-> "nil",
              bs |-> SubSeq(data, rdr.pos + 1, rdr.pos + n)]

\* The stream under an errWriter: Write(p) stores what the stream has room
\* for and reports a short write with an error.
streamWrite(out, wtr, bs) ==
    LET n == Min(Len(bs), wtr.room)
    IN  [Writer |-> [wtr EXCEPT !.room = wtr.room - n], n |-> n,
         err |-> IF n < Len(bs) THEN "ENOSPC" ELSE "nil",
         out |-> out \o SubSeq(bs, 1, n)]

\* fmt.Errorf("unable to read after previous error: %v", er.e): a new error
\* whose text quotes the recorded one.
afterPreviousError(what, e) == "unable to " \o what \o " after previous error: " \o e

\* errReader.Read(p) with len(p) = k: the errReader after the call, what the
\* call returned, and the calls made on the embedded Reader.
errReaderRead(er, data, k) ==
    IF er.e # "nil"
    THEN [er |-> er, n |-> 0, err |-> afterPreviousError("read", er.e), bs |-> <<>>,
          calls |-> <<>>]
    ELSE LET u  == streamRead(data, er.Reader, k)
             e2 == IF u.n < k /\ u.err # "nil" THEN u.err ELSE er.e
         IN  [er |-> [Reader |-> u.Reader, e |-> e2, n |-> er.n + u.n],
              n |-> u.n, err |-> e2, bs |-> u.bs, calls |-> <<"Read">>]

\* errWriter.Write(p): the errWriter after the call, the stream, what the
\* call returned, and the calls made on the embedded Writer.
errWriterWrite(ew, out, bs) ==
    IF ew.e # "nil"
    THEN [ew |-> ew, out |-> out, n |-> 0, err |-> afterPreviousError("write", ew.e),
          calls |-> <<>>]
    ELSE LET u  == streamWrite(out, ew.Writer, bs)
             e2 == IF u.err # "nil" THEN u.err ELSE ew.e
         IN  [ew |-> [Writer |-> u.Writer, e |-> e2], out |-> u.out, n |-> u.n,
              err |-> e2, calls |-> <<"Write">>]

\* io.ReadFull(er, buf) with len(buf) = k, as binary.Read calls it: Read is
\* called until k bytes are there or a Read returns an error; an io.EOF
\* after some bytes becomes io.ErrUnexpectedEOF.
RECURSIVE ReadFull(_, _, _, _, _)
ReadFull(er, data, k, got, calls) ==
    IF Len(got) >= k
    THEN [er |-> er, err |-> "nil", bs |-> got, calls |-> calls]
    ELSE LET x   == errReaderRead(er, data, k - Len(got))
             all == got \o x.bs
         IN  IF x.err = "nil"
             THEN ReadFull(x.er, data, k, all, calls \o x.calls)
             ELSE [er |-> x.er, bs |-> all, calls |-> calls \o x.calls,
                   err |-> IF Len(all) >= k THEN "nil"
                           ELSE IF Len(all) > 0 /\ x.err = "EOF" THEN "UnexpectedEOF"
                           ELSE x.err]

\* readLE / readBE of an int32: nothing is done when an error is recorded;
\* otherwise binary.Read reads 4 bytes and decodes them, and its error is
\* recorded.  v is the value of the variable read into (old when unread).
readOrdered(er, data, le, old) ==
    IF er.e # "nil"
    THEN [er |-> er, v |-> old, calls |-> <<>>]
    ELSE LET x == ReadFull(er, data, 4, <<>>, <<>>)
         IN  IF x.err # "nil"
             THEN [er |-> [x.er EXCEPT !.e = x.err], v |-> old, calls |-> x.calls]
             ELSE [er |-> x.er, v |-> IF le THEN DecLE32(x.bs) ELSE DecBE32(x.bs),
                   calls |-> x.calls]

readLE(er, data, old) == readOrdered(er, data, TRUE, old)

readBE(er, data, old) == readOrdered(er, data, FALSE, old)

\* writeLE / writeBE of an int32: nothing is done when an error is recorded;
\* otherwise binary.Write encodes the value and gives the 4 bytes to Write
\* once, and its error is recorded.
writeOrdered(ew, out, le, v) ==
    IF ew.e # "nil"
    THEN [ew |-> ew, out |-> out, calls |-> <<>>]
    ELSE LET x == errWriterWrite(ew, out, IF le THEN LE32(v) ELSE BE32(v))
         IN  IF x.err # "nil"
             THEN [ew |-> [x.ew EXCEPT !.e = x.err], out |-> x.out, calls |-> x.calls]
             ELSE [ew |-> x.ew, out |-> x.out, calls |-> x.calls]

writeLE(ew, out, v) == writeOrdered(ew, out, TRUE, v)

writeBE(ew, out, v) == writeOrdered(ew, out, FALSE, v)

\* The streams read, the sizes of a Read's buffer, the room of the streams
\* written, the values written and the number of calls of a run.
MaxCodecCalls == 3
CodecStreams == {<<>>, <<1, 0>>, <<1, 0, 0, 2>>, <<1, 0, 0, 2, 0, 0>>}
CodecChunks == {1, 4}
CodecRooms == {0, 2, 4, 8}
CodecBufs == {1, 4}
CodecValues == {1, 258}

\* An errReader over the stream shp and an errWriter over the stream dbf,
\* both without error; log holds the calls made on the two streams.
InitCodec ==
    /\ pc = "codec"
    /\ shp \in CodecStreams
    /\ shx = <<>>
    /\ dbf = <<>>
    /\ \E c \in CodecChunks : r = [Reader |-> [pos |-> 0, chunk |-> c], e |-> "nil", n |-> 0]
    /\ \E k \in CodecRooms : w = [Writer |-> [room |-> k], e |-> "nil"]
    /\ log = <<>>
    /\ attrLog = <<>>
    /\ yielded = <<>>
    /\ last = Result("none", "nil", 0, <<>>)
    /\ nApp = 0
    /\ orig = NoOrig

\* One call through the errReader: last holds what the call reported, for
\* readLE / readBE the er.e its caller tests afterwards.
CodecReaderCall(op, er, res, n, s, calls) ==
    /\ pc = "codec"
    /\ nApp < MaxCodecCalls
    /\ nApp' = nApp + 1
    /\ r' = er
    /\ log' = log \o calls
    /\ last' = Result(op, res, n, s)
    /\ UNCHANGED <<pc, shp, shx, dbf, w, attrLog, yielded, orig>>

CodecRead ==
    \E k \in CodecBufs :
        LET x == errReaderRead(r, shp, k)
        IN  CodecReaderCall("Read", x.er, x.err, x.n, x.bs, x.calls)

CodecReadLE ==
    LET x == readLE(r, shp, 0)
    IN  CodecReaderCall("readLE", x.er, x.er.e, x.v, <<>>, x.calls)

CodecReadBE ==
    LET x == readBE(r, shp, 0)
    IN  CodecReaderCall("readBE", x.er, x.er.e, x.v, <<>>, x.calls)

\* One call through the errWriter.
CodecWriterCall(op, ew, out, res, n, calls) ==
    /\ pc = "codec"
    /\ nApp < MaxCodecCalls
    /\ nApp' = nApp + 1
    /\ w' = ew
    /\ dbf' = out
    /\ log' = log \o calls
    /\ last' = Result(op, res, n, <<>>)
    /\ UNCHANGED <<pc, shp, shx, r, attrLog, yielded, orig>>

CodecWrite ==
    \E v \in CodecValues, k \in CodecBufs :
        LET x == errWriterWrite(w, dbf, SubSeq(LE32(v), 1, k))
        IN  CodecWriterCall("Write", x.ew, x.out, x.err, x.n, x.calls)

CodecWriteLE ==
    \E v \in CodecValues :
        LET x == writeLE(w, dbf, v)
        IN  CodecWriterCall("writeLE", x.ew, x.out, x.ew.e, 0, x.calls)

CodecWriteBE ==
    \E v \in CodecValues :
        LET x == writeBE(w, dbf, v)
        IN  CodecWriterCall("writeBE", x.ew, x.out, x.ew.e, 0, x.calls)

NextCodec ==
    \/ CodecRead
    \/ CodecReadLE
    \/ CodecReadBE
    \/ CodecWrite
    \/ CodecWriteLE
    \/ CodecWriteBE

SpecCodec == InitCodec /\ [][NextCodec]_vars

ReaderOps == {"Read", "readLE", "readBE"}
WriterOps == {"Write", "writeLE", "writeBE"}

\* A call made through an errReader, or an errWriter, that holds an error.
ReaderCallAfterError == pc = "codec" /\ nApp' = nApp + 1 /\ last'.op \in ReaderOps /\ r.e # "nil"
WriterCallAfterError == pc = "codec" /\ nApp' = nApp + 1 /\ last'.op \in WriterOps /\ w.e # "nil"

\* C29: a call through an errReader or errWriter that holds an error makes
\* no call on the stream under it, leaves the stream and the recorded error
\* as they were, and reports the recorded error.
C29_ShortCircuitSameError ==
    [][ /\ ReaderCallAfterError =>
            (log' = log /\ r'.Reader = r.Reader /\ r'.e = r.e /\ last'.res = r.e)
        /\ WriterCallAfterError =>
            (log' = log /\ dbf' = dbf /\ w'.Writer = w.Writer /\ w'.e = w.e
             /\ last'.res = w.e) ]_vars

\* The same without the error reported by Read and Write themselves, which
\* is the new error of afterPreviousError.
ShortCircuitKeepsError ==
    [][ /\ ReaderCallAfterError =>
            /\ log' = log /\ r' = r
            /\ last'.res = IF last'.op = "Read" THEN afterPreviousError("read", r.e) ELSE r.e
        /\ WriterCallAfterError =>
            /\ log' = log /\ dbf' = dbf /\ w' = w
            /\ last'.res = IF last'.op = "Write" THEN afterPreviousError("write", w.e) ELSE w.e
      ]_vars

\* ------------------------------------------------ resync mode, step by step
\* trySkipToNextValidShape: for pos := currentPos + 8, the first offset of
\* the scan.
skipStartBefore(currentPos) == currentPos - 4

skipStart(currentPos) == currentPos + 8

\* trySkipToNextValidShape: pos += 4, the stride of the scan.
scanStride(pos) == pos + 4

\* One pass through the body of Next at the offset r.pos, up to its return
\* or its next call: to is "true" or "false" (Next returns), "Next" (Next
\* calls itself at r.pos) or "scan" (trySkipToNextValidShape starts at
\* pos); tried says whether the record header was read.
nextPass(rd, f) ==
    LET cur  == rd.pos
        h    == readShapeRecordHeader(f, cur)
        pay  == ReadAt(f, cur + 12, ShapeReadLen(h.shapetype))
        next == nextPos(cur, h.size)
        skip == [rd EXCEPT !.pos = next, !.num = h.num]
    IN  IF cur >= rd.filelength
        THEN [r |-> rd, to |-> "false", pos |-> 0, tried |-> FALSE]
        ELSE IF h.err = "EOF"
        THEN [r |-> [rd EXCEPT !.pos = Len(f)], to |-> "false", pos |-> 0, tried |-> TRUE]
        ELSE IF h.err # "nil"
        THEN [r |-> [rd EXCEPT !.pos = Len(f)], to |-> "scan", pos |-> skipStart(cur),
              tried |-> TRUE]
        ELSE IF sizeRefused(h.size) \/ expectedEndPos(cur, h.size) > rd.filelength
        THEN [r |-> [rd EXCEPT !.pos = cur + 12], to |-> "scan", pos |-> skipStart(cur),
              tried |-> TRUE]
        ELSE IF \/ ~newShapeOk(h.shapetype) \/ h.shapetype \notin ModelledTypes
                \/ Len(pay) < ShapeReadLen(h.shapetype)
        THEN IF next <= rd.filelength
             THEN [r |-> skip, to |-> "Next", pos |-> 0, tried |-> TRUE]
             ELSE [r |-> [rd EXCEPT !.num = h.num, !.pos = cur + 12 + Len(pay)],
                   to |-> "false", pos |-> 0, tried |-> TRUE]
        ELSE [r |-> [skip EXCEPT !.shape = ShapeRead(h.shapetype, pay)],
              to |-> "true", pos |-> 0, tried |-> TRUE]

\* One turn of the loop of trySkipToNextValidShape at the offset pos: the
\* loop ends (to is "false"), goes on at the next pos ("scan"), or calls
\* Next at the candidate ("Next").
scanPass(rd, f, pos) ==
    LET h == readShapeRecordHeader(f, pos)
    IN  IF pos >= rd.filelength - 8
        THEN [r |-> rd, to |-> "false", pos |-> pos, tried |-> FALSE]
        ELSE IF h.err # "nil"
        THEN [r |-> [rd EXCEPT !.pos = Len(f)], to |-> "scan", pos |-> scanStride(pos),
              tried |-> TRUE]
        ELSE IF isCandidate(rd, h, pos)
        THEN [r |-> [rd EXCEPT !.pos = pos], to |-> "Next", pos |-> pos, tried |-> TRUE]
        ELSE [r |-> [rd EXCEPT !.pos = pos + 12], to |-> "scan", pos |-> scanStride(pos),
              tried |-> TRUE]

\* The 4-byte words that the body of a .shp file is made of: zero, the
\* tags 1 and 2 (little-endian), the content length 2 (big-endian) and -1;
\* a body has up to MaxWords of them and may end within a word.
MaxWords == 5
SkipWords == {<<0, 0, 0, 0>>, <<1, 0, 0, 0>>, <<2, 0, 0, 0>>, <<0, 0, 0, 2>>,
              <<255, 255, 255, 255>>}
SkipTails == {<<>>, <<0, 0>>}

RECURSIVE SkipBodies(_)
SkipBodies(n) ==
    IF n = 0 THEN {<<>>}
    ELSE SkipBodies(n - 1) \cup {b \o x : b \in SkipBodies(n - 1), x \in SkipWords}

SkipFiles == {OrigShp(POINT, <<>>) \o b \o t : b \in SkipBodies(MaxWords), t \in SkipTails}

\* A .shp file with a sound header and any body.  Within a call of Next,
\* pc is "Next" or "scan", nApp is the pos of the scan, log the record
\* headers read by the call and orig.r the Reader at the call.
InitSkip ==
    \E f \in SkipFiles :
        /\ pc = "closed"
        /\ shp = f
        /\ shx = <<>>
        /\ dbf = <<>>
        /\ orig = [shp |-> f, shx |-> <<>>, dbf |-> <<>>, r |-> NoReader]
        /\ w = NoWriter
        /\ r = NoReader
        /\ log = <<>>
        /\ attrLog = <<>>
        /\ yielded = <<>>
        /\ last = Result("none", "nil", 0, <<>>)
        /\ nApp = 0

\* The caller calls Next.
CallNext ==
    /\ pc = "reader"
    /\ pc' = "Next"
    /\ log' = <<>>
    /\ orig' = [orig EXCEPT !.r = r]
    /\ last' = Result("call", "nil", 0, <<>>)
    /\ UNCHANGED <<shp, shx, dbf, w, r, attrLog, yielded, nApp>>

\* The end of a pass: Next returns to its caller, or goes on in Next or in
\* the scan.
SkipGoes(by, at, x) ==
    /\ r' = x.r
    /\ log' = IF x.tried THEN Append(log, [by |-> by, at |-> at]) ELSE log
    /\ nApp' = IF x.to = "scan" THEN x.pos ELSE nApp
    /\ IF x.to \in {"true", "false"}
       THEN /\ pc' = "reader"
            /\ last' = Result("Next", x.to, 0, <<>>)
       ELSE /\ pc' = x.to
            /\ UNCHANGED last
    /\ yielded' = IF x.to = "true"
                  THEN Append(yielded, [num |-> x.r.num, index |-> ShapeIndex(x.r),
                                        shape |-> x.r.shape, at |-> at])
                  ELSE yielded
    /\ UNCHANGED <<shp, shx, dbf, w, attrLog, orig>>

NextPass == pc = "Next" /\ SkipGoes("Next", r.pos, nextPass(r, shp))

ScanPass == pc = "scan" /\ SkipGoes("scan", nApp, scanPass(r, shp, nApp))

NextSkip ==
    \/ last.op = "none" /\ OpenWithConfig(".shp", TRUE)
    \/ CallNext
    \/ NextPass
    \/ ScanPass

SpecSkip == InitSkip /\ [][NextSkip]_vars

\* A call of Next runs on until it returns.
SpecSkipFair == SpecSkip /\ WF_vars(NextPass) /\ WF_vars(ScanPass)

Increasing(s) == \A i \in 1..(Len(s) - 1) : s[i].at < s[i + 1].at

NotDecreasing(s) == \A i \in 1..(Len(s) - 1) : s[i].at <= s[i + 1].at

ReadByNext(a) == a.by = "Next"

InNext == pc \in {"Next", "scan"}

\* C30: with IgnoreCorruptedShapes, whatever the body of the .shp file,
\* within one call of Next the offsets at which Next reads a record header
\* strictly increase, the scan of trySkipToNextValidShape never goes back
\* behind them, every header is read before r.filelength, and the call
\* returns, with true or with false.
C30_ResyncNextTerminates ==
    /\ [](InNext => /\ Increasing(SelectSeq(log, ReadByNext))
                    /\ NotDecreasing(log)
                    /\ \A i \in 1..Len(log) : log[i].at < r.filelength)
    /\ (InNext ~> (pc = "reader" /\ last.op = "Next" /\ last.res \in {"true", "false"}))

\* A call of Next that read a header, was sent to the scan, was called
\* again at a candidate and returned true.
C30_Witness ==
    /\ pc = "reader"
    /\ last.op = "Next"
    /\ last.res = "true"
    /\ Len(SelectSeq(log, ReadByNext)) >= 2
    /\ \E i \in 1..Len(log) : log[i].by = "scan"

\* The passes of a call add up to Next: when the call has returned, the
\* Reader and the result are those of NextResync on the Reader of the call.
PassesAreNext ==
    (pc = "reader" /\ last.op = "Next") =>
        LET n == NextResync(orig.r, shp)
        IN  /\ n.r = r
            /\ n.ok = (last.res = "true")

====
